---------------------------- MODULE Spec2Model ----------------------------
(***************************************************************************)
(* A model of the redis backend of python-stdnet                           *)
(* (src/stdnet/backends/redisb.py): the structure flush protocol, the      *)
(* delete cascade, the session commit and the query compiler.              *)
(*                                                                         *)
(* Each subsystem has its own variables and its own specification; a       *)
(* specification leaves the variables of the other subsystems at their     *)
(* idle value.                                                             *)
(***************************************************************************)
EXTENDS Integers, Sequences, FiniteSets, TLC

(***************************************************************************)
(* Bounds of the model.                                                    *)
(***************************************************************************)
\* members, hash fields and timestamps are 1..MaxElem
MaxElem == 2
\* scores and values are 1..MaxVal
MaxVal == 2
\* pending entries of a list, number array or string cache
MaxLen == 2
\* flush/commit calls on one structure
MaxCalls == 3
\* registered models are 1..NModels
NModels == 3
\* foreign keys registered between the models
MaxRel == 3
\* depth at which the interpreter gives up a recursion (RuntimeError)
RecursionLimit == 4
\* model sessions of one session
MaxSm == 2
\* instances (dirty objects, structures) of one session
MaxDirty == 2
\* instances of one commit script call whose response is processed
MaxBatch == 3
\* queries of one query tree, the root included
MaxNodes == 3
\* sub-queries among the children of one query
MaxSub == 2
\* number of elements of a query
MaxN == 10
\* largest absolute value of the start and the stop of a slice
MaxIdx == 3
\* timestamps of a timeseries
MaxTs == 2
\* calls that add to the cache of a timeseries
MaxAdds == 3
\* sessions a timeseries may be bound to
NSessions == 2
\* tuples of one merge
MaxSeries == 2
\* timeseries among the tuples of one merge
MaxOperands == 2
\* structures processed by one flush_structure
MaxChecked == 3
\* compilations of one query tree
MaxCompiles == 2
\* keys held by a JSON value in all, sub-dictionaries included
MaxEntries == 3

VARIABLES
    \* ---- structure cache and flush (RedisStructure and its subclasses)
    skind,      \* the structure class
    sdeleted,   \* instance.state().deleted
    cache,      \* instance.cache: the pending containers
    fl,         \* the last flush/commit call on the structure and what it did
    ncalls,     \* number of flush/commit calls so far
    \* ---- delete cascade (BackendDataServer.accumulate_delete)
    schema,     \* the foreign keys registered: meta.related of every model
    dphase,     \* "register", then the outcome of accumulate_delete
    droot,      \* the model of the backend query handed to accumulate_delete
    dpipe,      \* the commands queued on the pipeline
    \* ---- session commit (BackendDataServer.execute_session)
    session,    \* the model sessions, in iteration order
    si,         \* the model session the loop of execute_session is at
    pipe,       \* the commands queued on the pipeline of execute_session
    sent,       \* the commands sent to the store
    nexec,      \* number of calls of pipe.execute
    skey,       \* next unused temporary key
    sstatus,    \* "setup", "running", "executed" or the exception raised
    \* ---- commit response (odmrun.callback)
    cresp,      \* the response of the store to a commit script call
    ciids,      \* the iids option of the call: state.iid of its instances
    cout,       \* the outcomes the callback has produced
    cphase,     \* "call", then "done" or the exception raised
    \* ---- query compiler (RedisQuery._build)
    qtree,      \* the query element compiled: self.queryelem
    qordered,   \* meta.ordering is set
    bpipe,      \* the commands queued on self.pipe
    bkey,       \* self.query_key
    bstatus,    \* "new", then "built", "executed" or the exception raised
    bexec,      \* number of calls of pipe.execute on self.pipe
    \* ---- loading the items of a query (RedisQuery._items)
    iq,         \* the query: its orderings, get_field, slice and size
    iexecuted,  \* the query has been executed: its size is known
    inet,       \* the calls that went to the store, in order
    ires,       \* the outcome of _items
    \* ---- timeseries cache (TimeseriesCache, ColumnTS._add)
    tcache,     \* the cache: fields, delete_fields, deleted_timestamps
    tprev,      \* the cache before the last call
    tlast,      \* per field and timestamp, the value of the last add ("": none)
    top,        \* the last call: its kind and the fields it added to
    tnadds,     \* number of calls so far
    \* ---- merge of timeseries (ColumnTS.merge, ColumnTS.merged_series)
    mseries,    \* the series argument: per tuple, the sessions of its timeseries
    mtsession0, \* the session of the target before the call
    mtsession,  \* the session of the target
    mlog,       \* the calls made on the backend and on the sessions, in order
    mdirty,     \* the sessions that hold the target as a pending instance
    mstored,    \* the store holds merged data under the key of the target
    mstatus,    \* "new", then "merged", "drained" or the exception raised
    \* ---- structure check response (check_structures.callback)
    kinstances, \* the instances option of the call: the structures processed
    kresponse,  \* the response of the store: one type per key
    kresults,   \* the results handed to session_result
    kstatus,    \* "call", then "done" or the exception raised
    \* ---- compiling a query again (RedisQuery._build, twice)
    wtree,      \* the query element compiled
    wordered,   \* meta.ordering is set
    wstore,     \* the keys of the store and their members
    wnext,      \* next unused temporary key
    wruns,      \* per compilation: its outcome, query_key and the members
    \* ---- construction of a field (Field.__init__ and its subclasses)
    fclass,     \* the class of the field
    fkwargs,    \* the unique, primary_key, required and index arguments
    ffield,     \* the attributes of the field constructed
    fstatus,    \* "new", then "constructed"
    \* ---- a lookup in a stored timeseries (ColumnTS.range, ColumnTS.get)
    gstore,     \* the timeseries in the store: dumped timestamp -> field -> value
    gop,        \* the call made on the ColumnTS and its arguments
    gcall,      \* what the backend structure and async_handle were given
    gout,       \* what the call returned
    \* ---- flattening of a JSON value (dict_flat_generator, flat_to_nested)
    jvalue,     \* the value flattened
    jattname,   \* the attribute name, empty when there is none
    jdata,      \* the flat dictionary made of the pairs generated
    jval,       \* the nested dictionary flat_to_nested returns
    jstatus     \* "new", "flat", then "returned" or the exception raised

flushVars == <<skind, sdeleted, cache, fl, ncalls>>
deleteVars == <<schema, dphase, droot, dpipe>>
sessionVars == <<session, si, pipe, sent, nexec, skey, sstatus>>
commitVars == <<cresp, ciids, cout, cphase>>
buildVars == <<qtree, qordered, bpipe, bkey, bstatus, bexec>>
itemsVars == <<iq, iexecuted, inet, ires>>
tsVars == <<tcache, tprev, tlast, top, tnadds>>
mergeVars == <<mseries, mtsession0, mtsession, mlog, mdirty, mstored, mstatus>>
checkVars == <<kinstances, kresponse, kresults, kstatus>>
twiceVars == <<wtree, wordered, wstore, wnext, wruns>>
fieldVars == <<fclass, fkwargs, ffield, fstatus>>
getVars == <<gstore, gop, gcall, gout>>
jsonVars == <<jvalue, jattname, jdata, jval, jstatus>>

\* what the actions of one subsystem leave alone
flushOthers == <<deleteVars, sessionVars, commitVars, buildVars, itemsVars, tsVars, mergeVars, checkVars, twiceVars, fieldVars, getVars, jsonVars>>
deleteOthers == <<flushVars, sessionVars, commitVars, buildVars, itemsVars, tsVars, mergeVars, checkVars, twiceVars, fieldVars, getVars, jsonVars>>
sessionOthers == <<flushVars, dphase, droot, dpipe, commitVars, buildVars, itemsVars, tsVars, mergeVars, checkVars, twiceVars, fieldVars, getVars, jsonVars>>
commitOthers == <<flushVars, deleteVars, sessionVars, buildVars, itemsVars, tsVars, mergeVars, checkVars, twiceVars, fieldVars, getVars, jsonVars>>
buildOthers == <<flushVars, deleteVars, sessionVars, commitVars, itemsVars, tsVars, mergeVars, checkVars, twiceVars, fieldVars, getVars, jsonVars>>
itemsOthers == <<flushVars, deleteVars, sessionVars, commitVars, buildVars, tsVars, mergeVars, checkVars, twiceVars, fieldVars, getVars, jsonVars>>
tsOthers == <<flushVars, deleteVars, sessionVars, commitVars, buildVars, itemsVars, mergeVars, checkVars, twiceVars, fieldVars, getVars, jsonVars>>
mergeOthers == <<flushVars, deleteVars, sessionVars, commitVars, buildVars, itemsVars, tsVars, checkVars, twiceVars, fieldVars, getVars, jsonVars>>
checkOthers == <<flushVars, deleteVars, sessionVars, commitVars, buildVars, itemsVars, tsVars, mergeVars, twiceVars, fieldVars, getVars, jsonVars>>
twiceOthers == <<flushVars, deleteVars, sessionVars, commitVars, buildVars, itemsVars, tsVars, mergeVars, checkVars, fieldVars, getVars, jsonVars>>
fieldOthers == <<flushVars, deleteVars, sessionVars, commitVars, buildVars, itemsVars, tsVars, mergeVars, checkVars, twiceVars, getVars, jsonVars>>
getOthers == <<flushVars, deleteVars, sessionVars, commitVars, buildVars, itemsVars, tsVars, mergeVars, checkVars, twiceVars, fieldVars, jsonVars>>
jsonOthers == <<flushVars, deleteVars, sessionVars, commitVars, buildVars, itemsVars, tsVars, mergeVars, checkVars, twiceVars, fieldVars, getVars>>

vars == <<skind, sdeleted, cache, fl, ncalls, schema, dphase, droot, dpipe,
          session, si, pipe, sent, nexec, skey, sstatus,
          cresp, ciids, cout, cphase,
          qtree, qordered, bpipe, bkey, bstatus, bexec,
          iq, iexecuted, inet, ires,
          tcache, tprev, tlast, top, tnadds,
          mseries, mtsession0, mtsession, mlog, mdirty, mstored, mstatus,
          kinstances, kresponse, kresults, kstatus,
          wtree, wordered, wstore, wnext, wruns,
          fclass, fkwargs, ffield, fstatus,
          gstore, gop, gcall, gout,
          jvalue, jattname, jdata, jval, jstatus>>

(***************************************************************************)
(* Helpers on sequences and sets.                                          *)
(***************************************************************************)
Range(s) == {s[i] : i \in DOMAIN s}

\* <<a, b>> precedes <<c, d>> in the tuple order of Python
PairLess(p, q) == p[1] < q[1] \/ (p[1] = q[1] /\ p[2] < q[2])

MinPair(S) == CHOOSE p \in S : \A q \in S \ {p} : PairLess(p, q)

RECURSIVE SortedPairs(_)
SortedPairs(S) ==
    IF S = {} THEN <<>>
    ELSE LET p == MinPair(S) IN <<p>> \o SortedPairs(S \ {p})

RECURSIVE Flatten(_)
Flatten(ps) ==
    IF ps = <<>> THEN <<>>
    ELSE <<Head(ps)[1], Head(ps)[2]>> \o Flatten(Tail(ps))

\* OrderedMixin.flat() of a zset/ts cache: score, member, score, member, ...
\* in increasing order
Flat(S) == Flatten(SortedPairs(S))

CountOf(s, P(_)) == Cardinality({i \in DOMAIN s : P(s[i])})

(***************************************************************************)
(* Structure caches.                                                       *)
(***************************************************************************)
Kinds == {"String", "Set", "Zset", "List", "Hash", "TS", "NumberArray"}

Elems == 1..MaxElem
Vals == 1..MaxVal

EmptyCache == [toadd |-> {}, toremove |-> {}, front |-> <<>>, back |-> <<>>,
               data |-> <<>>]

CacheEmpty(c) == c = EmptyCache

\* the kinds whose toadd holds pairs: (score, member), (field, value),
\* (timestamp, value)
PairKinds == {"Zset", "Hash", "TS"}

\* the key of a pending pair: the member of a zset entry, the field of a hash
\* entry, the timestamp of a timeseries entry
KeyOf(k, e) == IF k = "Zset" THEN e[2] ELSE e[1]

AddElems(k) ==
    IF k = "Set" THEN Elems
    ELSE IF k = "Zset" THEN Vals \X Elems
    ELSE IF k \in {"Hash", "TS"} THEN Elems \X Vals
    ELSE {}

RemoveElems(k) ==
    IF k \in {"Set", "Hash", "TS"} THEN Elems
    ELSE IF k = "Zset" THEN Vals \X Elems
    ELSE {}

\* cache.update / cache.add: the entry is pending for addition and no longer
\* pending for removal
CacheAdd(k, c, e) ==
    IF k = "Set"
    THEN [c EXCEPT !.toadd = @ \cup {e}, !.toremove = @ \ {e}]
    ELSE [c EXCEPT
            !.toadd = {x \in @ : KeyOf(k, x) # KeyOf(k, e)} \cup {e},
            !.toremove = IF k = "Zset"
                         THEN {x \in @ : KeyOf(k, x) # KeyOf(k, e)}
                         ELSE @ \ {KeyOf(k, e)}]

\* cache.remove: the entry is pending for removal and no longer for addition
CacheRemove(k, c, e) ==
    IF k = "Set"
    THEN [c EXCEPT !.toadd = @ \ {e}, !.toremove = @ \cup {e}]
    ELSE IF k = "Zset"
    THEN [c EXCEPT
            !.toadd = {x \in @ : KeyOf(k, x) # KeyOf(k, e)},
            !.toremove = {x \in @ : KeyOf(k, x) # KeyOf(k, e)} \cup {e}]
    ELSE [c EXCEPT
            !.toadd = {x \in @ : KeyOf(k, x) # e},
            !.toremove = @ \cup {e}]

Pending(c) == Len(c.front) + Len(c.back) + Len(c.data)

(***************************************************************************)
(* flush of each structure class.  A flush returns the commands it issued  *)
(* on self.client, its result (None or True), whether it raised and the    *)
(* cache as it leaves it.                                                  *)
(***************************************************************************)
Cmd(op, args) == [op |-> op, args |-> args]

FlushOut(cmds, c, raised) ==
    [cmds |-> cmds,
     result |-> IF raised THEN "raised" ELSE IF cmds # <<>> THEN "True" ELSE "None",
     raised |-> raised,
     cache |-> c]

\* mutants of the flushes
SetFlushAlways(c) ==
    FlushOut(<<Cmd("sadd", c.toadd)>>
             \o (IF c.toremove # {} THEN <<Cmd("srem", c.toremove)>> ELSE <<>>),
             c, FALSE)

ListFlushPerItem(c) ==
    FlushOut([i \in 1..Len(c.front) |-> Cmd("lpush", <<c.front[i]>>)]
             \o [i \in 1..Len(c.back) |-> Cmd("rpush", <<c.back[i]>>)],
             c, FALSE)

ZsetFlushClears(c) ==
    FlushOut((IF c.toadd # {} THEN <<Cmd("zadd", Flat(c.toadd))>> ELSE <<>>)
             \o (IF c.toremove # {}
                 THEN <<Cmd("zrem", {el[2] : el \in c.toremove})>> ELSE <<>>),
             EmptyCache, FALSE)

NumberArrayFlushAlways(c) ==
    FlushOut(<<Cmd("numberarray_pushback", c.back)>>, c, FALSE)

ZsetFlushRemovesScores(c) ==
    FlushOut((IF c.toadd # {} THEN <<Cmd("zadd", Flat(c.toadd))>> ELSE <<>>)
             \o (IF c.toremove # {}
                 THEN <<Cmd("zrem", {el[1] : el \in c.toremove})>> ELSE <<>>),
             c, FALSE)

StringFlush(c) ==
    FlushOut(IF c.data # <<>> THEN <<Cmd("append", c.data)>> ELSE <<>>, c, FALSE)

SetFlush(c) ==
    FlushOut((IF c.toadd # {} THEN <<Cmd("sadd", c.toadd)>> ELSE <<>>)
             \o (IF c.toremove # {} THEN <<Cmd("srem", c.toremove)>> ELSE <<>>),
             c, FALSE)

ZsetFlush(c) ==
    FlushOut((IF c.toadd # {} THEN <<Cmd("zadd", Flat(c.toadd))>> ELSE <<>>)
             \o (IF c.toremove # {}
                 THEN <<Cmd("zrem", {el[2] : el \in c.toremove})>> ELSE <<>>),
             c, FALSE)

ListFlush(c) ==
    FlushOut((IF c.front # <<>> THEN <<Cmd("lpush", c.front)>> ELSE <<>>)
             \o (IF c.back # <<>> THEN <<Cmd("rpush", c.back)>> ELSE <<>>),
             c, FALSE)

HashFlush(c) ==
    FlushOut((IF c.toadd # {} THEN <<Cmd("hmset", c.toadd)>> ELSE <<>>)
             \o (IF c.toremove # {} THEN <<Cmd("hdel", c.toremove)>> ELSE <<>>),
             c, FALSE)

TSFlush(c) ==
    FlushOut(IF c.toadd # {} THEN <<Cmd("ts_commands_add", Flat(c.toadd))>>
             ELSE <<>>,
             c, c.toremove # {})

NumberArrayFlush(c) ==
    FlushOut(IF c.back # <<>> THEN <<Cmd("numberarray_pushback", c.back)>>
             ELSE <<>>,
             c, FALSE)

\* BackendDataServer.struct_map: the flush of the structure's class
Flush(k, c) ==
    CASE k = "String" -> StringFlush(c)
      [] k = "Set" -> SetFlush(c)
      [] k = "Zset" -> ZsetFlush(c)
      [] k = "List" -> ListFlush(c)
      [] k = "Hash" -> HashFlush(c)
      [] k = "TS" -> TSFlush(c)
      [] k = "NumberArray" -> NumberArrayFlush(c)

\* RedisStructure.delete
StructDelete == <<Cmd("delete", <<>>)>>

AdditiveOps == {"append", "sadd", "zadd", "lpush", "rpush", "hmset",
                "ts_commands_add", "numberarray_pushback"}
RemovalOps == {"srem", "zrem", "hdel"}

IsAdditive(cmd) == cmd.op \in AdditiveOps
IsRemoval(cmd) == cmd.op \in RemovalOps

(***************************************************************************)
(* The structure as a state machine: writes to the cache, flush, and the   *)
(* commit of the structure by its caller.                                  *)
(***************************************************************************)
NoCall == [op |-> "none", flushed |-> FALSE, fresh |-> FALSE,
           result |-> "None", raised |-> FALSE, preEmpty |-> TRUE,
           kept |-> TRUE, cmds |-> <<>>, issuedAny |-> FALSE,
           written |-> FALSE, towrite |-> FALSE,
           prevOp |-> "none", prevFlushed |-> FALSE, prevRaised |-> FALSE,
           prevIssued |-> FALSE]

FlushInit ==
    /\ skind \in Kinds
    /\ sdeleted \in BOOLEAN
    /\ cache = EmptyCache
    /\ fl = NoCall
    /\ ncalls = 0

FlushIdle ==
    /\ skind = "Set"
    /\ sdeleted = FALSE
    /\ cache = EmptyCache
    /\ fl = NoCall
    /\ ncalls = 0

\* a write leaves the record of the last call, marks it stale
AfterWrite == [fl EXCEPT !.fresh = FALSE, !.cmds = <<>>, !.towrite = TRUE]

\* Structure.add / update
StructAdd(e) ==
    /\ e \in AddElems(skind)
    /\ cache' = CacheAdd(skind, cache, e)
    /\ fl' = AfterWrite
    /\ UNCHANGED <<skind, sdeleted, ncalls>>
    /\ UNCHANGED flushOthers

\* Structure.discard / remove / pop
StructRemove(e) ==
    /\ e \in RemoveElems(skind)
    /\ cache' = CacheRemove(skind, cache, e)
    /\ fl' = AfterWrite
    /\ UNCHANGED <<skind, sdeleted, ncalls>>
    /\ UNCHANGED flushOthers

\* List.push_back, NumberArray.push_back
PushBack(x) ==
    /\ skind \in {"List", "NumberArray"}
    /\ Pending(cache) < MaxLen
    /\ cache' = [cache EXCEPT !.back = Append(@, x)]
    /\ fl' = AfterWrite
    /\ UNCHANGED <<skind, sdeleted, ncalls>>
    /\ UNCHANGED flushOthers

\* List.push_front
PushFront(x) ==
    /\ skind = "List"
    /\ Pending(cache) < MaxLen
    /\ cache' = [cache EXCEPT !.front = Append(@, x)]
    /\ fl' = AfterWrite
    /\ UNCHANGED <<skind, sdeleted, ncalls>>
    /\ UNCHANGED flushOthers

\* String.push_back
StringWrite(x) ==
    /\ skind = "String"
    /\ Pending(cache) < MaxLen
    /\ cache' = [cache EXCEPT !.data = Append(@, x)]
    /\ fl' = AfterWrite
    /\ UNCHANGED <<skind, sdeleted, ncalls>>
    /\ UNCHANGED flushOthers

\* the record of a call that ran `out` and left the cache as `post`
CallRecord(op, flushed, out) ==
    [op |-> op, flushed |-> flushed, fresh |-> TRUE,
     result |-> out.result, raised |-> out.raised,
     preEmpty |-> CacheEmpty(cache),
     kept |-> (out.cache = cache),
     cmds |-> out.cmds, issuedAny |-> (out.cmds # <<>>),
     written |-> fl.towrite, towrite |-> FALSE,
     prevOp |-> fl.op, prevFlushed |-> fl.flushed, prevRaised |-> fl.raised,
     prevIssued |-> fl.issuedAny]

\* a direct call of flush on the backend structure
FlushCall ==
    /\ ncalls < MaxCalls
    /\ LET out == Flush(skind, cache) IN
        /\ fl' = CallRecord("flush", TRUE, out)
        /\ cache' = out.cache
    /\ ncalls' = ncalls + 1
    /\ UNCHANGED <<skind, sdeleted>>
    /\ UNCHANGED flushOthers

\* BackendStructure.commit, as flush_structure calls it for every instance:
\* delete a deleted structure, flush any other, then clear the cache
Commit ==
    /\ ncalls < MaxCalls
    /\ LET out == IF sdeleted
                  THEN FlushOut(StructDelete, cache, FALSE)
                  ELSE Flush(skind, cache)
       IN
        /\ fl' = CallRecord("commit", ~sdeleted, out)
        /\ cache' = IF out.raised THEN out.cache ELSE EmptyCache
    /\ ncalls' = ncalls + 1
    /\ UNCHANGED <<skind, sdeleted>>
    /\ UNCHANGED flushOthers

FlushNext ==
    \/ \E e \in AddElems(skind) : StructAdd(e)
    \/ \E e \in RemoveElems(skind) : StructRemove(e)
    \/ \E x \in Elems : PushBack(x)
    \/ \E x \in Elems : PushFront(x)
    \/ \E x \in Elems : StringWrite(x)
    \/ FlushCall
    \/ Commit

(***************************************************************************)
(* The delete cascade: BackendDataServer.accumulate_delete.                *)
(***************************************************************************)
Models == 1..NModels

\* a foreign key of model `from` to model `to`: the related manager that
\* meta.related of `to` holds (rmanager.model = from, rmanager.field = the key)
Relations == [from : Models, to : Models, required : BOOLEAN]

\* no relation: the query handed to accumulate_delete by its caller
NoRel == [from |-> 0, to |-> 0, required |-> TRUE]

\* the key of the query handed over, and the temporary keys made after it
QueryKey(n) == [tmp |-> TRUE, id |-> n]

\* the pipeline the caller passes down
ThePipe == 1

DCmd(op, m, key, src, via, arg, pp) ==
    [op |-> op, model |-> m, key |-> key, src |-> src, via |-> via,
     arg |-> arg, pipe |-> pp]

RelLess(r, q) ==
    \/ r.from < q.from
    \/ r.from = q.from /\ r.required /\ ~q.required

RECURSIVE SortedRels(_)
SortedRels(S) ==
    IF S = {} THEN <<>>
    ELSE LET r == CHOOSE x \in S : \A y \in S \ {x} : RelLess(x, y)
         IN <<r>> \o SortedRels(S \ {r})

\* meta.related of model m, in the order the loop visits it
Related(sch, m) == SortedRels({r \in sch : r.to = m})

\* mutant: no related manager is taken for one of the model itself
IsSelfRelNever(r) == FALSE

\* line 852: the related manager's model is the model itself
IsSelfRel(r) == r.from = r.to

\* mutant: the cascade follows optional foreign keys too
CascadesAlways(r) == TRUE

\* line 860: delete the dependents only if the field is required
Cascades(r) == r.required

\* rmanager.query_from_query(query).backend_query(pipe=pp): the query of
\* the dependents of the instances under `key`, compiled on the same pipeline
\* into a fresh temporary key that expires
DependentsQuery(r, key, next, pp) ==
    <<DCmd("query", r.from, QueryKey(next), key, r, NoRel, pp),
      DCmd("expire", r.from, QueryKey(next), key, r, NoRel, pp)>>

\* lines 849-856: one aggregate per self-referential relation
Aggregates(sch, m, key, via, pp) ==
    LET selfs == SelectSeq(Related(sch, m), IsSelfRel)
    IN [i \in 1..Len(selfs) |->
            DCmd("aggregate", m, key, key, via, selfs[i], pp)]

\* mutant: the delete of the model is queued before the cascade
ParentFirst(own, cascade) == own \o cascade

\* lines 858-863: the cascade of the dependents, then the delete of the model
DeleteOrder(own, cascade) == cascade \o own

RECURSIVE AccumulateDelete(_, _, _, _, _, _, _)
RECURSIVE CascadeLoop(_, _, _, _, _, _)

\* accumulate_delete(pipe, backend_query) for a query on model m whose
\* query_key is key; via is the relation the recursion came through, next the
\* next unused temporary key.  Returns the commands queued, the next unused
\* key and whether the call raised.
AccumulateDelete(sch, m, key, via, next, depth, pp) ==
    IF depth > RecursionLimit
    THEN [cmds |-> <<>>, next |-> next, raised |-> TRUE]
    ELSE
        LET others == SelectSeq(Related(sch, m), LAMBDA r : ~IsSelfRel(r))
            agg == Aggregates(sch, m, key, via, pp)
            loop == CascadeLoop(sch, others, key, next, depth, pp)
            own == <<DCmd("delete", m, key, key, via, NoRel, pp)>>
        IN IF loop.raised
           THEN [cmds |-> agg \o loop.cmds, next |-> loop.next, raised |-> TRUE]
           ELSE [cmds |-> agg \o DeleteOrder(own, loop.cmds),
                 next |-> loop.next, raised |-> FALSE]

\* lines 858-862: the loop over the related managers of the other models
CascadeLoop(sch, rels, key, next, depth, pp) ==
    IF rels = <<>>
    THEN [cmds |-> <<>>, next |-> next, raised |-> FALSE]
    ELSE
        LET r == Head(rels) IN
        IF ~Cascades(r)
        THEN CascadeLoop(sch, Tail(rels), key, next, depth, pp)
        ELSE
            LET rq == DependentsQuery(r, key, next, pp)
                sub == AccumulateDelete(sch, r.from, QueryKey(next), r,
                                        next + 1, depth + 1, pp)
            IN IF sub.raised
               THEN [cmds |-> rq \o sub.cmds, next |-> sub.next, raised |-> TRUE]
               ELSE LET rest == CascadeLoop(sch, Tail(rels), key, sub.next,
                                            depth, pp)
                    IN [cmds |-> rq \o sub.cmds \o rest.cmds,
                        next |-> rest.next, raised |-> rest.raised]

DeleteInit ==
    /\ schema = {}
    /\ dphase = "register"
    /\ droot = 0
    /\ dpipe = <<>>

DeleteIdle ==
    /\ schema = {}
    /\ dphase = "idle"
    /\ droot = 0
    /\ dpipe = <<>>

\* ForeignKey._register_with_related_model
RegisterForeignKey(r) ==
    /\ dphase = "register"
    /\ Cardinality(schema) < MaxRel
    /\ r \notin schema
    /\ schema' = schema \cup {r}
    /\ UNCHANGED <<dphase, droot, dpipe>>
    /\ UNCHANGED deleteOthers

\* accumulate_delete(pipe, None)
AccumulateDeleteNone ==
    /\ dphase = "register"
    /\ dphase' = "returned"
    /\ UNCHANGED <<schema, droot, dpipe>>
    /\ UNCHANGED deleteOthers

\* accumulate_delete(pipe, backend_query) with a query on model m
AccumulateDeleteCall(m) ==
    /\ dphase = "register"
    /\ LET out == AccumulateDelete(schema, m, QueryKey(0), NoRel, 1, 1, ThePipe)
       IN /\ dpipe' = out.cmds
          /\ dphase' = IF out.raised THEN "raised" ELSE "returned"
    /\ droot' = m
    /\ UNCHANGED schema
    /\ UNCHANGED deleteOthers

DeleteNext ==
    \/ \E r \in Relations : RegisterForeignKey(r)
    \/ AccumulateDeleteNone
    \/ \E m \in Models : AccumulateDeleteCall(m)

(***************************************************************************)
(* The session commit: BackendDataServer.execute_session.                  *)
(***************************************************************************)
\* instance.pkvalue() of an instance with no primary key yet: None, sent as ''
EmptyId == 0

\* meta.ordering of the models: model 1 has none, model 2 an auto-incremented
\* one, every other model an ordering field
OrderingOf(m) == IF m = 1 THEN "none" ELSE IF m = 2 THEN "auto" ELSE "field"

\* the models of a session, one for each kind of ordering
SessionModels == {1, 2, 3}

\* the foreign keys of the models of a session: model 2 holds a required and
\* model 3 an optional foreign key to model 1, which also refers to itself
SessionSchema ==
    {[from |-> 2, to |-> 1, required |-> TRUE],
     [from |-> 3, to |-> 1, required |-> FALSE],
     [from |-> 1, to |-> 1, required |-> FALSE]}

\* a dirty instance: is_valid(), state().persistent, pkvalue() and the value
\* of the ordering field (0: None).  An instance that is not valid is read no
\* further than is_valid(), so one such instance stands for all of them.
Instances ==
    {i \in [valid : BOOLEAN, persistent : BOOLEAN, pk : {EmptyId, 9},
            oval : {0, 3}] :
        /\ i.persistent => i.pk = 9
        /\ i.oval = (IF i.persistent THEN 3 ELSE 0)
        /\ ~i.valid => (~i.persistent /\ i.pk = EmptyId)}

\* the structures a structure session holds, dirty or deleted
Structures ==
    {[kind |-> "Set", deleted |-> FALSE, cache |-> EmptyCache],
     [kind |-> "Hash", deleted |-> FALSE,
      cache |-> CacheAdd("Hash", EmptyCache, <<1, 1>>)],
     [kind |-> "List", deleted |-> TRUE,
      cache |-> [EmptyCache EXCEPT !.back = <<1>>]],
     [kind |-> "TS", deleted |-> FALSE,
      cache |-> CacheRemove("TS", CacheAdd("TS", EmptyCache, <<1, 1>>), 2)]}

SeqsUpTo(S, n) == UNION {[1..k -> S] : k \in 0..n}

\* a model session: of the structures or of the objects of one model
ObjectSms(n) ==
    [type : {"object"}, model : SessionModels, todelete : BOOLEAN,
     dirty : SeqsUpTo(Instances, n), structs : {<<>>}]

StructureSms(n) ==
    [type : {"structure"}, model : {0}, todelete : {FALSE},
     dirty : {<<>>}, structs : SeqsUpTo(Structures, n) \ {<<>>}]

SmSize(sm) == Len(sm.dirty) + Len(sm.structs)

RECURSIVE SessionSize(_)
SessionSize(ss) == IF ss = <<>> THEN 0 ELSE SmSize(Head(ss)) + SessionSize(Tail(ss))

\* state.iid of the instances: unique in the session
Iid(k, j) == 10 * k + j

\* mutant: the score function is applied to a value that is None
ScoreOfNone(m, inst) ==
    IF OrderingOf(m) = "none" THEN [kind |-> "MIN_FLOAT", v |-> 0]
    ELSE IF OrderingOf(m) = "auto" THEN [kind |-> "incrby", v |-> 0]
    ELSE [kind |-> "scorefun", v |-> inst.oval]

\* the score of a dirty instance, lines 816-823
Score(m, inst) ==
    IF OrderingOf(m) = "none" THEN [kind |-> "MIN_FLOAT", v |-> 0]
    ELSE IF OrderingOf(m) = "auto" THEN [kind |-> "incrby", v |-> 0]
    ELSE IF inst.oval = 0 THEN [kind |-> "MIN_FLOAT", v |-> 0]
    ELSE [kind |-> "scorefun", v |-> inst.oval]

\* flat_mapping(instance._dbdata['cleaned_data']): key, value, key, value...
CleanedData(inst) == IF inst.persistent THEN <<1, inst.oval>> ELSE <<>>

\* mutant: the length sent with a payload counts its key/value pairs
CommitRecordCountsPairs(m, k, j, inst) ==
    [action |-> IF inst.persistent THEN "change" ELSE "add",
     id |-> IF inst.persistent THEN Iid(k, j) ELSE inst.pk,
     score |-> Score(m, inst),
     len |-> Len(CleanedData(inst)) \div 2,
     data |-> CleanedData(inst)]

\* lines 824-831: the record of one dirty instance in lua_data
CommitRecord(m, k, j, inst) ==
    [action |-> IF inst.persistent THEN "change" ELSE "add",
     id |-> IF inst.persistent THEN Iid(k, j) ELSE inst.pk,
     score |-> Score(m, inst),
     len |-> Len(CleanedData(inst)),
     data |-> CleanedData(inst)]

RECURSIVE LuaRecords(_, _, _, _)
\* lines 830-831: lua_data.extend((action, id, score, len(data))), then
\* lua_data.extend(data), for the dirty instances from the j-th on
LuaRecords(m, k, dirty, j) ==
    IF j > Len(dirty) THEN <<>>
    ELSE LET r == CommitRecord(m, k, j, dirty[j])
         IN <<r.action, r.id, r.score, r.len>> \o r.data
                \o LuaRecords(m, k, dirty, j + 1)

\* lines 809-831: lua_data, the positional arguments of the commit call
LuaData(m, k, dirty) == <<Len(dirty)>> \o LuaRecords(m, k, dirty, 1)

\* mutant: one commit script call per dirty instance
CommitPerInstance(m, k, dirty) ==
    [j \in 1..Len(dirty) |->
        [op |-> "odmrun", command |-> "commit", model |-> m, n |-> 1,
         records |-> <<CommitRecord(m, k, j, dirty[j])>>,
         args |-> LuaData(m, k, <<dirty[j]>>),
         iids |-> <<Iid(k, j)>>, pipe |-> ThePipe]]

\* lines 806-834: the commit script call of the dirty instances of model
\* session k, none when there is no dirty instance
CommitCommands(m, k, dirty) ==
    IF Len(dirty) = 0 THEN <<>>
    ELSE <<[op |-> "odmrun", command |-> "commit", model |-> m,
            n |-> Len(dirty),
            records |-> [j \in 1..Len(dirty) |-> CommitRecord(m, k, j, dirty[j])],
            args |-> LuaData(m, k, dirty),
            iids |-> [j \in 1..Len(dirty) |-> Iid(k, j)],
            pipe |-> ThePipe]>>

\* mutant: the validation of the dirty instances is skipped
NoneInvalid(dirty) == FALSE

\* lines 813-815: some dirty instance is not valid
AnyInvalid(dirty) == \E j \in DOMAIN dirty : ~dirty[j].valid

\* sm.get_delete_query(pipe=pipe): the query of the instances to delete,
\* compiled on the pipeline into a temporary key that expires; None when the
\* model session deletes nothing
DeleteQuery(sm, next) ==
    IF sm.todelete
    THEN <<DCmd("query", sm.model, QueryKey(next), QueryKey(next), NoRel, NoRel,
                ThePipe),
           DCmd("expire", sm.model, QueryKey(next), QueryKey(next), NoRel, NoRel,
                ThePipe)>>
    ELSE <<>>

\* mutant: the commit is queued before the delete cascade
ObjectSessionCommitFirst(sm, k, next) ==
    LET dq == DeleteQuery(sm, next)
        acc == IF sm.todelete
               THEN AccumulateDelete(schema, sm.model, QueryKey(next), NoRel,
                                     next + 1, 1, ThePipe)
               ELSE [cmds |-> <<>>, next |-> next, raised |-> FALSE]
    IN IF acc.raised
       THEN [cmds |-> dq \o acc.cmds, next |-> acc.next,
             status |-> "RuntimeError"]
       ELSE IF AnyInvalid(sm.dirty)
       THEN [cmds |-> dq \o acc.cmds, next |-> acc.next,
             status |-> "FieldValueError"]
       ELSE [cmds |-> CommitCommands(sm.model, k, sm.dirty) \o dq \o acc.cmds,
             next |-> acc.next, status |-> "running"]

\* lines 802-834: one object model session
ObjectSession(sm, k, next) ==
    LET dq == DeleteQuery(sm, next)
        acc == IF sm.todelete
               THEN AccumulateDelete(schema, sm.model, QueryKey(next), NoRel,
                                     next + 1, 1, ThePipe)
               ELSE [cmds |-> <<>>, next |-> next, raised |-> FALSE]
    IN IF acc.raised
       THEN [cmds |-> dq \o acc.cmds, next |-> acc.next,
             status |-> "RuntimeError"]
       ELSE IF AnyInvalid(sm.dirty)
       THEN [cmds |-> dq \o acc.cmds, next |-> acc.next,
             status |-> "FieldValueError"]
       ELSE [cmds |-> dq \o acc.cmds \o CommitCommands(sm.model, k, sm.dirty),
             next |-> acc.next, status |-> "running"]

\* binstance.commit() of one structure on the pipeline
StructCommit(st) ==
    IF st.deleted THEN FlushOut(StructDelete, st.cache, FALSE)
    ELSE Flush(st.kind, st.cache)

RECURSIVE FlushStructures(_, _)
\* lines 892-897: the loop of flush_structure over the structures from the
\* j-th on; it stops at the first commit that raises
FlushStructures(sts, j) ==
    IF j > Len(sts) THEN [cmds |-> <<>>, raised |-> FALSE, done |-> 0]
    ELSE LET out == StructCommit(sts[j]) IN
         IF out.raised
         THEN [cmds |-> out.cmds, raised |-> TRUE, done |-> 0]
         ELSE LET rest == FlushStructures(sts, j + 1)
              IN [cmds |-> out.cmds \o rest.cmds, raised |-> rest.raised,
                  done |-> 1 + rest.done]

\* lines 889-900: flush_structure(sm, pipe)
FlushStructure(sm, k) ==
    LET loop == FlushStructures(sm.structs, 1)
        tagged == [i \in DOMAIN loop.cmds |->
                    [op |-> loop.cmds[i].op, args |-> loop.cmds[i].args,
                     pipe |-> ThePipe]]
        \* the caches of the structures committed are cleared
        cleared == [j \in DOMAIN sm.structs |->
                        IF j <= loop.done
                        THEN [sm.structs[j] EXCEPT !.cache = EmptyCache]
                        ELSE sm.structs[j]]
    IN IF loop.raised
       THEN [cmds |-> tagged, structs |-> cleared,
             status |-> "NotImplementedError"]
       ELSE [cmds |-> tagged \o
                      (IF Len(sm.structs) > 0
                       THEN <<[op |-> "check_structures",
                               args |-> Len(sm.structs), pipe |-> ThePipe]>>
                       ELSE <<>>),
             structs |-> cleared,
             status |-> "running"]

SessionInit ==
    /\ session = <<>>
    /\ si = 1
    /\ pipe = <<>>
    /\ sent = <<>>
    /\ nexec = 0
    /\ skey = 1
    /\ sstatus = "setup"
    /\ schema = SessionSchema

SessionIdle ==
    /\ session = <<>>
    /\ si = 1
    /\ pipe = <<>>
    /\ sent = <<>>
    /\ nexec = 0
    /\ skey = 1
    /\ sstatus = "idle"

\* Session.add / Session.delete: the caller fills the session, one model
\* session per model
AddModelSession(sm) ==
    /\ sstatus = "setup"
    /\ Len(session) < MaxSm
    /\ SessionSize(session) + SmSize(sm) <= MaxDirty
    /\ sm.type = "object" =>
        \A k \in DOMAIN session :
            session[k].type = "object" => session[k].model # sm.model
    /\ session' = Append(session, sm)
    /\ UNCHANGED <<si, pipe, sent, nexec, skey, sstatus, schema>>
    /\ UNCHANGED sessionOthers

\* line 796: execute_session(session) creates its pipeline
ExecuteSessionBegin ==
    /\ sstatus = "setup"
    /\ sstatus' = "running"
    /\ UNCHANGED <<session, si, pipe, sent, nexec, skey, schema>>
    /\ UNCHANGED sessionOthers

\* mutant: the flush of the structures is sent to the store at once
StructureStepSends ==
    /\ sstatus = "running"
    /\ si <= Len(session)
    /\ session[si].type = "structure"
    /\ LET out == FlushStructure(session[si], si) IN
        /\ pipe' = pipe \o out.cmds
        /\ sent' = sent \o out.cmds
        /\ session' = [session EXCEPT ![si].structs = out.structs]
        /\ sstatus' = out.status
    /\ si' = si + 1
    /\ UNCHANGED <<nexec, skey, schema>>
    /\ UNCHANGED sessionOthers

\* lines 797-801: the loop body for a structure model session
StructureStep ==
    /\ sstatus = "running"
    /\ si <= Len(session)
    /\ session[si].type = "structure"
    /\ LET out == FlushStructure(session[si], si) IN
        /\ pipe' = pipe \o out.cmds
        /\ session' = [session EXCEPT ![si].structs = out.structs]
        /\ sstatus' = out.status
    /\ si' = si + 1
    /\ UNCHANGED <<sent, nexec, skey, schema>>
    /\ UNCHANGED sessionOthers

\* lines 797-834: the loop body for an object model session
ObjectStep ==
    /\ sstatus = "running"
    /\ si <= Len(session)
    /\ session[si].type = "object"
    /\ LET out == ObjectSession(session[si], si, skey) IN
        /\ pipe' = pipe \o out.cmds
        /\ skey' = IF session[si].todelete THEN out.next ELSE skey
        /\ sstatus' = out.status
    /\ si' = si + 1
    /\ UNCHANGED <<session, sent, nexec, schema>>
    /\ UNCHANGED sessionOthers

\* line 835: return pipe.execute()
Execute ==
    /\ sstatus = "running"
    /\ si > Len(session)
    /\ sent' = sent \o pipe
    /\ nexec' = nexec + 1
    /\ sstatus' = "executed"
    /\ UNCHANGED <<session, si, pipe, skey, schema>>
    /\ UNCHANGED sessionOthers

SessionNext ==
    \/ \E sm \in ObjectSms(MaxDirty) \cup StructureSms(MaxDirty) :
            AddModelSession(sm)
    \/ ExecuteSessionBegin
    \/ StructureStep
    \/ ObjectStep
    \/ Execute

(***************************************************************************)
(* The response of the store to a commit: odmrun.callback, _wrap_commit.   *)
(***************************************************************************)
\* the bytes of the info of a response entry: "1", "12" and "e"
Infos == {<<49>>, <<49, 50>>, <<101>>}

IsDigit(b) == b \in 48..57

RECURSIVE DigitsValue(_, _)
DigitsValue(bs, acc) ==
    IF bs = <<>> THEN acc
    ELSE DigitsValue(Tail(bs), 10 * acc + (Head(bs) - 48))

\* float(info): the number the bytes spell, ValueError when they spell none
FloatOk(bs) == bs # <<>> /\ \A i \in DOMAIN bs : IsDigit(bs[i])
Float(bs) == DigitsValue(bs, 0)

\* info.decode(redis_client.encoding)
Chr(b) == IF b = 101 THEN "e" ELSE IF IsDigit(b) THEN "d" ELSE "?"
Decode(bs) == [i \in DOMAIN bs |-> Chr(bs[i])]

Triples == [id : {7, 8}, flag : {0, 1}, info : Infos]

Min(a, b) == IF a < b THEN a ELSE b

\* instance_session_result(iid, persistent, id, deleted, score)
InstanceSessionResult(iid, persistent, id, deleted, score) ==
    [type |-> "instance_session_result", iid |-> iid,
     persistent |-> persistent, id |-> id, deleted |-> deleted,
     score |-> score, msg |-> <<>>]

CommitException(msg) ==
    [type |-> "CommitException", iid |-> 0, persistent |-> FALSE, id |-> 0,
     deleted |-> FALSE, score |-> 0, msg |-> msg]

RECURSIVE WrapFrom(_, _, _)
WrapFrom(response, iids, i) ==
    IF i > Min(Len(response), Len(iids))
    THEN [out |-> <<>>, status |-> "done"]
    ELSE LET r == response[i] IN
         IF r.flag # 0 /\ ~FloatOk(r.info)
         THEN [out |-> <<>>, status |-> "ValueError"]
         ELSE LET rest == WrapFrom(response, iids, i + 1)
                  one == IF r.flag # 0
                         THEN InstanceSessionResult(iids[i], TRUE, r.id, FALSE,
                                                    Float(r.info))
                         ELSE CommitException(Decode(r.info))
              IN [out |-> <<one>> \o rest.out, status |-> rest.status]

RECURSIVE WrapUntilRejected(_, _, _)
WrapUntilRejected(response, iids, i) ==
    IF i > Min(Len(response), Len(iids))
    THEN [out |-> <<>>, status |-> "done"]
    ELSE LET r == response[i] IN
         IF r.flag = 0
         THEN [out |-> <<CommitException(Decode(r.info))>>, status |-> "done"]
         ELSE IF ~FloatOk(r.info)
         THEN [out |-> <<>>, status |-> "ValueError"]
         ELSE LET rest == WrapUntilRejected(response, iids, i + 1)
              IN [out |-> <<InstanceSessionResult(iids[i], TRUE, r.id, FALSE,
                                                  Float(r.info))>> \o rest.out,
                  status |-> rest.status]

\* mutant: the first rejected instance ends the results
WrapCommitStops(response, iids) == WrapUntilRejected(response, iids, 1)

\* _wrap_commit(response, iids): one outcome per pair of zip(response, iids)
WrapCommit(response, iids) == WrapFrom(response, iids, 1)

CommitInit ==
    /\ cresp \in SeqsUpTo(Triples, MaxBatch)
    /\ ciids \in {[j \in 1..n |-> Iid(1, j)] : n \in 0..MaxBatch}
    /\ cout = <<>>
    /\ cphase = "call"

CommitIdle ==
    /\ cresp = <<>>
    /\ ciids = <<>>
    /\ cout = <<>>
    /\ cphase = "idle"

\* odmrun.callback(response, command='commit', iids=...)
CallbackCommit ==
    /\ cphase = "call"
    /\ LET res == WrapCommit(cresp, ciids) IN
        /\ cout' = res.out
        /\ cphase' = res.status
    /\ UNCHANGED <<cresp, ciids>>
    /\ UNCHANGED commitOthers

CommitNext == CallbackCommit

(***************************************************************************)
(* The query compiler: RedisQuery._build.                                  *)
(***************************************************************************)
Keywords == {"set", "intersect", "union", "diff", "other"}

\* a query element: its keyword, whether its name is the primary key, the
\* number of its index lookups (children that are (lookup, value) pairs), its
\* children that are queries, its where clause and its get_field ("" when
\* there is none, "id" for the primary key).  The name and the lookups are
\* read for the keyword 'set' only.
NodeShapes ==
    {n \in [keyword : Keywords, pkname : BOOLEAN, lookups : 0..1,
            where : BOOLEAN, gf : {"", "id", "field"}] :
        n.keyword # "set" => (n.pkname /\ n.lookups = 0)}

WithSub(shape, sub) ==
    [keyword |-> shape.keyword, pkname |-> shape.pkname,
     lookups |-> shape.lookups, where |-> shape.where, gf |-> shape.gf,
     sub |-> sub]

\* the sub-queries: one shape for each path through _build (the three
\* keywords of the set algebra take the same path, union stands for them)
SubShapes ==
    {n \in NodeShapes :
        \/ n.keyword = "set" /\ ~n.where /\ n.gf = "" /\ (n.pkname \/ n.lookups = 0)
        \/ n.keyword = "set" /\ ~n.where /\ n.gf = "field" /\ n.pkname
        \/ n.keyword = "set" /\ n.where /\ n.gf = "" /\ n.pkname /\ n.lookups = 0
        \/ n.keyword \in {"union", "other"} /\ ~n.where /\ n.gf = ""}

RECURSIVE SubTrees(_)
RECURSIVE Forests(_, _)
\* the sequences of at most c sub-queries that hold n queries in all
Forests(n, c) ==
    IF n = 0 THEN {<<>>}
    ELSE IF c = 0 THEN {}
    ELSE UNION {{<<t>> \o f : t \in SubTrees(m), f \in Forests(n - m, c - 1)} :
                    m \in 1..n}

\* the sub-queries that hold n queries in all
SubTrees(n) == {WithSub(s, f) : s \in SubShapes, f \in Forests(n - 1, MaxSub)}

\* the query trees of at most n queries: any root, over sub-queries
Trees(n) ==
    {WithSub(s, f) : s \in NodeShapes,
                     f \in UNION {Forests(m - 1, MaxSub) : m \in 1..n}}

\* backend.basekey(meta, 'id') and backend.tempkey(meta)
IdKey == [tmp |-> FALSE, id |-> 0]
\* mutant: the names of the temporary keys run out and are used again
TempKeyReused(n) == [tmp |-> TRUE, id |-> Min(n, 3)]
TempKey(n) == [tmp |-> TRUE, id |-> n]
NoKey == [tmp |-> FALSE, id |-> -1]

\* a command queued on the pipeline: its name, the key it stores into and
\* the keys it reads
QCmd(op, dest, keys) == [op |-> op, dest |-> dest, keys |-> keys]

\* lines 786-792: where_run reads the names args and keys_args, which are
\* bound nowhere, and raises NameError before client.eval is called
WhereRun(keys) == [cmds |-> <<>>, status |-> "NameError"]

\* lines 179-186: the store command of a set-algebra keyword, none for any
\* other keyword
AlgebraCommand(keyword, p) ==
    IF keyword = "intersect" THEN p \o "interstore"
    ELSE IF keyword = "union" THEN p \o "unionstore"
    ELSE IF keyword = "diff" THEN p \o "diffstore"
    ELSE ""

RECURSIVE Build(_, _, _)
RECURSIVE BuildChildren(_, _, _, _)

\* lines 152-160: the children that are queries are compiled on the same
\* pipeline, in order; a child that raises ends the loop
BuildChildren(subs, j, next, ordered) ==
    IF j > Len(subs)
    THEN [cmds |-> <<>>, keys |-> <<>>, next |-> next, status |-> "built"]
    ELSE LET be == Build(subs[j], next, ordered) IN
         IF be.status # "built"
         THEN [cmds |-> be.cmds, keys |-> <<>>, next |-> be.next,
               status |-> be.status]
         ELSE LET rest == BuildChildren(subs, j + 1, be.next, ordered)
              IN [cmds |-> be.cmds \o rest.cmds,
                  keys |-> <<be.key>> \o rest.keys,
                  next |-> rest.next, status |-> rest.status]

\* mutant: every child key is moved to the plain-set type
Move2SetAlwaysPlain(keys, ordered) == QCmd("move2set_s", NoKey, keys)

\* lines 177-178: the script that moves the child keys to the ranked-set
\* type when the model has an ordering, to the plain-set type otherwise
Move2Set(keys, ordered) ==
    QCmd("move2set_" \o (IF ordered THEN "z" ELSE "s"), NoKey, keys)

\* lines 171-174: the query script fills a new temporary key; it is given
\* qs.name and the lookups as arguments
QueryScript(node, keys, next) ==
    [cmds |-> <<[op |-> "odmrun_query", dest |-> TempKey(next),
                 keys |-> <<TempKey(next)>> \o keys,
                 args |-> [pkname |-> node.pkname, lookups |-> node.lookups]]>>,
     key |-> TempKey(next), temp |-> TRUE, next |-> next + 1,
     keys |-> <<TempKey(next)>> \o keys, status |-> "built"]

\* mutant: the keyword 'set' always fills a temporary key
SetKeyAlwaysTemp(node, keys, next) == QueryScript(node, keys, next)

\* lines 166-174: the key of a query of keyword 'set'
SetKey(node, keys, next) ==
    IF node.pkname /\ node.lookups = 0 /\ keys = <<>>
    THEN [cmds |-> <<>>, key |-> IdKey, temp |-> FALSE, next |-> next,
          keys |-> keys, status |-> "built"]
    ELSE QueryScript(node, keys, next)

\* lines 165-187: the key of the query and the command that fills it
BuildKey(node, keys, next, ordered) ==
    IF node.keyword = "set"
    THEN SetKey(node, keys, next)
    ELSE LET p == IF ordered THEN "z" ELSE "s"
             move == Move2Set(keys, ordered)
         IN IF AlgebraCommand(node.keyword, p) = ""
            THEN [cmds |-> <<move>>, key |-> TempKey(next), temp |-> TRUE,
                  next |-> next + 1, keys |-> keys, status |-> "ValueError"]
            ELSE [cmds |-> <<move, QCmd(AlgebraCommand(node.keyword, p),
                                        TempKey(next), keys)>>,
                  key |-> TempKey(next), temp |-> TRUE, next |-> next + 1,
                  keys |-> keys, status |-> "built"]

\* lines 188-195: the where clause
BuildWhere(node, b) ==
    IF ~node.where THEN b
    ELSE LET key == IF b.temp THEN b.key ELSE TempKey(b.next)
             next == IF b.temp THEN b.next ELSE b.next + 1
             keys == <<key, b.key>> \o b.keys
             run == WhereRun(keys)
         IN [cmds |-> b.cmds \o run.cmds, key |-> key, temp |-> TRUE,
             next |-> next, keys |-> keys, status |-> run.status]

\* lines 199-208: the projection on a field that is not the primary key
BuildGetField(node, b) ==
    IF node.gf \in {"", "id"} THEN b
    ELSE LET key == IF b.temp THEN b.key ELSE TempKey(b.next)
             next == IF b.temp THEN b.next ELSE b.next + 1
         IN [cmds |-> b.cmds \o <<QCmd("sort", key, <<b.key>>)>>,
             key |-> key, temp |-> TRUE, next |-> next, keys |-> b.keys,
             status |-> "built"]

\* lines 209-210: the temporary key expires
BuildExpire(b) == IF b.temp THEN <<QCmd("expire", b.key, <<>>)>> ELSE <<>>

\* RedisQuery._build on the pipeline: the commands queued, query_key, the
\* next unused temporary key and "built" or the exception raised
Build(node, next, ordered) ==
    LET ch == BuildChildren(node.sub, 1, next, ordered) IN
    IF ch.status # "built"
    THEN [cmds |-> ch.cmds, key |-> NoKey, next |-> ch.next,
          status |-> ch.status]
    ELSE
        LET k == BuildKey(node, ch.keys, ch.next, ordered) IN
        IF k.status # "built"
        THEN [cmds |-> ch.cmds \o k.cmds, key |-> NoKey, next |-> k.next,
              status |-> k.status]
        ELSE
            LET w == BuildWhere(node, k) IN
            IF w.status # "built"
            THEN [cmds |-> ch.cmds \o w.cmds, key |-> NoKey, next |-> w.next,
                  status |-> w.status]
            ELSE
                LET g == BuildGetField(node, w)
                IN [cmds |-> ch.cmds \o g.cmds \o BuildExpire(g),
                    key |-> g.key, next |-> g.next, status |-> "built"]

\* lines 216-228: the cardinality command of the query key
CardCommand(ordered, projected) ==
    IF projected THEN "llen" ELSE IF ordered THEN "zcard" ELSE "scard"

BuildInit ==
    /\ qtree \in Trees(MaxNodes)
    /\ qordered \in BOOLEAN
    /\ bpipe = <<>>
    /\ bkey = NoKey
    /\ bstatus = "new"
    /\ bexec = 0

BuildIdle ==
    /\ qtree = <<>>
    /\ qordered = FALSE
    /\ bpipe = <<>>
    /\ bkey = NoKey
    /\ bstatus = "idle"
    /\ bexec = 0

\* BackendQuery.__init__: self._build(**kwargs)
BuildQuery ==
    /\ bstatus = "new"
    /\ LET b == Build(qtree, 1, qordered) IN
        /\ bpipe' = b.cmds
        /\ bkey' = b.key
        /\ bstatus' = b.status
    /\ UNCHANGED <<qtree, qordered, bexec>>
    /\ UNCHANGED buildOthers

\* RedisQuery._execute_query on the query that was built: the cardinality
\* command of query_key is queued and the pipeline is executed
BuildExecuteQuery ==
    /\ bstatus = "built"
    /\ bpipe' = bpipe \o
            <<QCmd(CardCommand(qordered, qtree.gf = "field"), NoKey, <<bkey>>)>>
    /\ bexec' = bexec + 1
    /\ bstatus' = "executed"
    /\ UNCHANGED <<qtree, qordered, bkey>>
    /\ UNCHANGED buildOthers

BuildNext ==
    \/ BuildQuery
    \/ BuildExecuteQuery

(***************************************************************************)
(* Loading the items of a query: RedisQuery._items.                        *)
(***************************************************************************)
\* a value that may be None
None == [none |-> TRUE, v |-> 0]
Some(x) == [none |-> FALSE, v |-> x]
Opt(S) == {None} \cup {Some(x) : x \in S}

Indexes == (-MaxIdx)..MaxIdx

\* slic: None, or a slice object with its start and its stop
NoSlice == [given |-> FALSE, start |-> None, stop |-> None]
Slices == [given : {TRUE}, start : Opt(Indexes), stop : Opt(Indexes)]

\* a query handed to _items: queryelem.ordering is set, meta.ordering ("none",
\* or its direction), queryelem._get_field ("" when there is none, "id" for
\* the primary key), the slice and the number of elements of the query
ItemQueries ==
    [ordering : BOOLEAN, mordering : {"none", "ASC", "DESC"},
     get : {"", "id", "field"}, slic : {NoSlice} \cup Slices, n : 0..MaxN]

\* lines 267-274
GetRedisSlice(slic) ==
    IF slic.given
    THEN [start |-> IF slic.start.none THEN 0 ELSE slic.start.v,
          stop |-> slic.stop]
    ELSE [start |-> 0, stop |-> None]

\* mutant: the primary-key ordering is applied to every query without an
\* ordering of its own
ResolveOrderingAlwaysPk(q, rs) ==
    IF q.ordering THEN [name |-> "", order |-> "query"]
    ELSE IF q.mordering # "none" THEN [name |-> q.mordering, order |-> "none"]
    ELSE [name |-> "", order |-> "pk"]

\* lines 284-289: the ordering of the query element, else the name of the
\* ordering of the model, else the primary-key ordering when the slice has a
\* start or a stop
ResolveOrdering(q, rs) ==
    IF q.ordering THEN [name |-> "", order |-> "query"]
    ELSE IF q.mordering # "none" THEN [name |-> q.mordering, order |-> "none"]
    ELSE IF rs.start # 0 \/ ~rs.stop.none
         THEN [name |-> "", order |-> "pk"]
         ELSE [name |-> "", order |-> "none"]

\* mutant: the stop index is passed on as it is
ResolveSliceKeepsStop(rs, N) ==
    [start |-> IF rs.start < 0 THEN rs.start + N ELSE rs.start,
     stop |-> IF rs.stop.none THEN N
              ELSE IF rs.stop.v < 0 THEN rs.stop.v + N ELSE rs.stop.v]

\* lines 294-301: under an explicit ordering the start and the number of
\* elements
ResolveSlice(rs, N) ==
    LET stop == IF rs.stop.none THEN N
                ELSE IF rs.stop.v < 0 THEN rs.stop.v + N ELSE rs.stop.v
        start == IF rs.start < 0 THEN rs.start + N ELSE rs.start
    IN [start |-> start, stop |-> stop - start]

\* lines 302-303: without an explicit ordering the stop index, -1 for None
PlainSlice(rs) ==
    [start |-> rs.start, stop |-> IF rs.stop.none THEN -1 ELSE rs.stop.v]

\* lines 213-232: _execute_query queues the cardinality command and executes
\* the pipeline
ExecuteQueryCalls(q) ==
    <<[call |-> "pipe.execute",
       last |-> CardCommand(q.mordering # "none", q.get = "field")]>>

\* self.execute_query(): the query is executed unless it has been already
ExecuteQueryOnce(q, executed) ==
    IF executed THEN <<>> ELSE ExecuteQueryCalls(q)

\* lines 308-311: get_field with a slice
UsageError(q) == q.get # "" /\ q.slic.given

\* lines 312-325: the fields loaded
LoadFields(q) ==
    IF q.get = "" THEN "all" ELSE IF q.get = "id" THEN "pk" ELSE "get"

\* RedisQuery._items(slic): the calls made to the store, and either the
\* options of the load script or the exception raised
Items(q, executed) ==
    LET rs == GetRedisSlice(q.slic)
        o == ResolveOrdering(q, rs)
        explicit == o.order # "none"
        calls == IF explicit THEN ExecuteQueryOnce(q, executed) ELSE <<>>
        se == IF explicit THEN ResolveSlice(rs, q.n) ELSE PlainSlice(rs)
        name == IF explicit THEN "explicit" ELSE o.name
    IN IF UsageError(q)
       THEN [status |-> "QuerySetError", calls |-> calls,
             executed |-> executed \/ explicit,
             ordering |-> name, order |-> o.order,
             start |-> se.start, stop |-> se.stop, fields |-> LoadFields(q)]
       ELSE [status |-> "loaded",
             calls |-> calls \o <<[call |-> "load", last |-> "odmrun"]>>,
             executed |-> executed \/ explicit,
             ordering |-> name, order |-> o.order,
             start |-> se.start, stop |-> se.stop, fields |-> LoadFields(q)]

NoItems ==
    [status |-> "new", ordering |-> "", order |-> "none", start |-> 0,
     stop |-> 0, fields |-> "all", called |-> FALSE]

ItemsInit ==
    /\ iq \in ItemQueries
    /\ iexecuted = FALSE
    /\ inet = <<>>
    /\ ires = NoItems

ItemsIdle ==
    /\ iq = <<>>
    /\ iexecuted = FALSE
    /\ inet = <<>>
    /\ ires = [NoItems EXCEPT !.status = "idle"]

\* the query is executed on its own, as for its count
ExecuteQuery ==
    /\ ires.status = "new"
    /\ ~iexecuted
    /\ inet' = inet \o ExecuteQueryCalls(iq)
    /\ iexecuted' = TRUE
    /\ UNCHANGED <<iq, ires>>
    /\ UNCHANGED itemsOthers

\* RedisQuery._items(slic)
ItemsCall ==
    /\ ires.status = "new"
    /\ LET out == Items(iq, iexecuted) IN
        /\ inet' = inet \o out.calls
        /\ iexecuted' = out.executed
        /\ ires' = [status |-> out.status, ordering |-> out.ordering,
                    order |-> out.order, start |-> out.start,
                    stop |-> out.stop, fields |-> out.fields,
                    called |-> out.calls # <<>>]
    /\ UNCHANGED iq
    /\ UNCHANGED itemsOthers

ItemsNext ==
    \/ ExecuteQuery
    \/ ItemsCall

(***************************************************************************)
(* The cache of a timeseries: TimeseriesCache and ColumnTS._add.           *)
(***************************************************************************)
\* the fields of the timeseries and the values dumped by its value_pickler
TsFields == {"open", "close"}
TsValues == {"a", "b"}
Timestamps == 1..MaxTs

\* skiplist(): an ordered buffer of (timestamp, value) entries
EmptySkiplist == <<>>

\* skiplist.insert(timestamp, value): the entry is put at its place in the
\* order of the timestamps; an entry of the same timestamp is overwritten
SkiplistInsert(sl, ts, v) ==
    LET before == SelectSeq(sl, LAMBDA e : e[1] < ts)
        after == SelectSeq(sl, LAMBDA e : e[1] > ts)
    IN before \o <<(<<ts, v>>)>> \o after

\* TimeseriesCache.__init__
EmptyTsCache ==
    [fields |-> <<>>, delete_fields |-> {}, deleted_timestamps |-> {}]

\* mutant: the entry is inserted into the buffer of every field
TimeseriesCacheAddAll(c, ts, f, v) ==
    LET dom == DOMAIN c.fields \cup {f}
    IN [c EXCEPT !.fields =
            [g \in dom |->
                SkiplistInsert(IF g \in DOMAIN c.fields THEN c.fields[g]
                               ELSE EmptySkiplist, ts, v)]]

\* TimeseriesCache.add(timestamp, field, value)
TimeseriesCacheAdd(c, ts, f, v) ==
    LET dom == DOMAIN c.fields \cup {f}
        have == [g \in dom |-> IF g \in DOMAIN c.fields THEN c.fields[g]
                               ELSE EmptySkiplist]
    IN [c EXCEPT !.fields =
            [have EXCEPT ![f] = SkiplistInsert(have[f], ts, v)]]

\* TimeseriesCache.clear
TimeseriesCacheClear(c) == EmptyTsCache

\* a mapping of fields to values: the argument of add(dt, mapping)
Mappings ==
    UNION {[S -> TsValues] : S \in (SUBSET TsFields) \ {{}}}

RECURSIVE AddItems(_, _, _, _)
\* lines 175-176: one add per item of the mapping
AddItems(c, ts, mapping, todo) ==
    IF todo = {} THEN c
    ELSE LET f == CHOOSE g \in todo : TRUE
         IN AddItems(TimeseriesCacheAdd(c, ts, f, mapping[f]), ts, mapping,
                     todo \ {f})

NoAdds == [p \in TsFields \X Timestamps |-> ""]

TsInit ==
    /\ tcache = EmptyTsCache
    /\ tprev = EmptyTsCache
    /\ tlast = NoAdds
    /\ top = [kind |-> "none", fields |-> {}, ts |-> 0]
    /\ tnadds = 0

TsIdle ==
    /\ tcache = EmptyTsCache
    /\ tprev = EmptyTsCache
    /\ tlast = NoAdds
    /\ top = [kind |-> "idle", fields |-> {}, ts |-> 0]
    /\ tnadds = 0

\* ColumnTS._add(dt, field, value): lines 177-178
TsAddPair(ts, f, v) ==
    /\ top.kind # "idle"
    /\ tnadds < MaxAdds
    /\ tcache' = TimeseriesCacheAdd(tcache, ts, f, v)
    /\ tprev' = tcache
    /\ tlast' = [tlast EXCEPT ![<<f, ts>>] = v]
    /\ top' = [kind |-> "add", fields |-> {f}, ts |-> ts]
    /\ tnadds' = tnadds + 1
    /\ UNCHANGED tsOthers

\* ColumnTS._add(dt, mapping): lines 171-176
TsAddMapping(ts, mapping) ==
    /\ top.kind # "idle"
    /\ tnadds < MaxAdds
    /\ tcache' = AddItems(tcache, ts, mapping, DOMAIN mapping)
    /\ tprev' = tcache
    /\ tlast' = [p \in TsFields \X Timestamps |->
                    IF p[2] = ts /\ p[1] \in DOMAIN mapping
                    THEN mapping[p[1]] ELSE tlast[p]]
    /\ top' = [kind |-> "add", fields |-> DOMAIN mapping, ts |-> ts]
    /\ tnadds' = tnadds + 1
    /\ UNCHANGED tsOthers

\* ColumnTS._add(dt) or with more than two arguments: lines 179-180
TsAddTypeError ==
    /\ top.kind # "idle"
    /\ tnadds < MaxAdds
    /\ tprev' = tcache
    /\ top' = [kind |-> "TypeError", fields |-> {}, ts |-> 0]
    /\ tnadds' = tnadds + 1
    /\ UNCHANGED <<tcache, tlast>>
    /\ UNCHANGED tsOthers

\* TimeseriesCache.clear(): lines 26-30
TsClear ==
    /\ top.kind # "idle"
    /\ tnadds < MaxAdds
    /\ tcache' = TimeseriesCacheClear(tcache)
    /\ tprev' = tcache
    /\ tlast' = NoAdds
    /\ top' = [kind |-> "clear", fields |-> {}, ts |-> 0]
    /\ tnadds' = tnadds + 1
    /\ UNCHANGED tsOthers

TsNext ==
    \/ \E ts \in Timestamps, f \in TsFields, v \in TsValues :
            TsAddPair(ts, f, v)
    \/ \E ts \in Timestamps, mapping \in Mappings : TsAddMapping(ts, mapping)
    \/ TsAddTypeError
    \/ TsClear

(***************************************************************************)
(* The merge of timeseries: ColumnTS.merge and ColumnTS.merged_series.     *)
(***************************************************************************)
\* session is None
NoSession == 0
SessionIds == 1..NSessions

\* a tuple (weight, ts_1, ..., ts_M) of the series argument is given by the
\* session attributes of its timeseries: its length is 1 + M
SerieTuples == SeqsUpTo({NoSession} \cup SessionIds, MaxOperands)

RECURSIVE TotalOperands(_)
TotalOperands(series) ==
    IF series = <<>> THEN 0
    ELSE Len(Head(series)) + TotalOperands(Tail(series))

SeriesInputs ==
    {ss \in SeqsUpTo(SerieTuples, MaxSeries) : TotalOperands(ss) <= MaxOperands}

\* mutant: no tuple is refused
NeverShort(serie) == FALSE

\* line 111: len(serie) < 2
ShortTuple(serie) == 1 + Len(serie) < 2

\* mutant: the session of the latest timeseries that has one is taken
PickLatest(sess, s) == IF s # NoSession THEN s ELSE sess

\* lines 114-115: if session is None: session = s.session
PickSession(sess, s) == IF sess = NoSession THEN s ELSE sess

RECURSIVE PickAmong(_, _)
\* lines 113-115: the loop over the timeseries of one tuple
PickAmong(sess, ops) ==
    IF ops = <<>> THEN sess
    ELSE PickAmong(PickSession(sess, Head(ops)), Tail(ops))

RECURSIVE FindSession(_, _)
\* lines 110-115: the loop over the tuples; it raises at the first short one
FindSession(sess, series) ==
    IF series = <<>> THEN [status |-> "found", session |-> sess]
    ELSE IF ShortTuple(Head(series))
    THEN [status |-> "ValueError", session |-> sess]
    ELSE FindSession(PickAmong(sess, Head(series)), Tail(series))

MEvent(ev, sess) == [ev |-> ev, session |-> sess]

\* ColumnTS.merge(*series, **kwargs) on a target bound to tsession: the
\* outcome, the session attribute of the target and the calls made
Merge(tsession, series) ==
    LET found == FindSession(tsession, series) IN
    IF found.status = "ValueError"
    THEN [status |-> "ValueError", session |-> tsession, log |-> <<>>]
    ELSE IF found.session = NoSession
    THEN [status |-> "SessionNotAvailable", session |-> tsession,
          log |-> <<>>]
    ELSE [status |-> "merged", session |-> found.session,
          log |-> <<MEvent("backend_merge", found.session),
                    MEvent("session_add", found.session)>>]

\* session.add(instance): the instance is held by the session as pending
SessionAdd(dirty, log) ==
    dirty \cup {log[i].session : i \in {j \in DOMAIN log : log[j].ev = "session_add"}}

MergeInit ==
    /\ mseries \in SeriesInputs
    /\ mtsession0 \in {NoSession} \cup SessionIds
    /\ mtsession = mtsession0
    /\ mlog = <<>>
    /\ mdirty = {}
    /\ mstored = FALSE
    /\ mstatus = "new"

MergeIdle ==
    /\ mseries = <<>>
    /\ mtsession0 = NoSession
    /\ mtsession = NoSession
    /\ mlog = <<>>
    /\ mdirty = {}
    /\ mstored = FALSE
    /\ mstatus = "idle"

\* target.merge(*series)
MergeCall ==
    /\ mstatus = "new"
    /\ LET out == Merge(mtsession, mseries) IN
        /\ mstatus' = out.status
        /\ mtsession' = out.session
        /\ mlog' = out.log
        /\ mdirty' = SessionAdd(mdirty, out.log)
        /\ mstored' = (out.status = "merged")
    /\ UNCHANGED <<mseries, mtsession0>>
    /\ UNCHANGED mergeOthers

\* ColumnTS.merged_series(*series): the target is a new timeseries, bound to
\* no session; it is merged, then read and deleted over its whole range
MergedSeriesCall ==
    /\ mstatus = "new"
    /\ mtsession = NoSession
    /\ LET out == Merge(NoSession, mseries) IN
        IF out.status # "merged"
        THEN /\ mstatus' = out.status
             /\ UNCHANGED <<mtsession, mlog, mdirty, mstored>>
        ELSE /\ mstatus' = "drained"
             /\ mtsession' = out.session
             /\ mlog' = out.log \o <<MEvent("irange_delete", out.session)>>
             /\ mdirty' = SessionAdd(mdirty, out.log)
             /\ mstored' = FALSE
    /\ UNCHANGED <<mseries, mtsession0>>
    /\ UNCHANGED mergeOthers

MergeNext ==
    \/ MergeCall
    \/ MergedSeriesCall

(***************************************************************************)
(* The response of the structure check: check_structures.callback.         *)
(***************************************************************************)
\* the type the store reports for the key of a structure
StructTypes == {"set", "none"}

\* a structure processed by flush_structure: instance.id and the deleted and
\* persistent flags of instance.state()
CheckedStates == [id : {1, 2}, deleted : BOOLEAN, persistent : BOOLEAN]

\* the instances of a call, each with its state.iid, unique in the session
CheckedInstances(raw) ==
    [j \in DOMAIN raw |->
        [iid |-> Iid(1, j), id |-> raw[j].id, deleted |-> raw[j].deleted,
         persistent |-> raw[j].persistent]]

\* line 118: raise InvalidTransaction(...).  The module imports
\* FieldValueError, CommitException and QuerySetError from stdnet (line 10)
\* and never binds the name InvalidTransaction, so evaluating it raises
\* NameError
RaiseInvalidTransaction == "NameError"

\* lines 116-117: the instance is flagged deleted and is still persistent
Undeletable(instance) == instance.deleted /\ instance.persistent

\* lines 112-121: the callback; zip stops at the shorter of its arguments
CheckStructures(response, instances) ==
    LET n == Min(Len(response), Len(instances)) IN
    IF \E j \in 1..n : Undeletable(instances[j])
    THEN [status |-> RaiseInvalidTransaction, results |-> <<>>]
    ELSE [status |-> "done",
          results |-> [j \in 1..n |->
                InstanceSessionResult(instances[j].iid, instances[j],
                                      instances[j].id, instances[j].deleted, 0)]]

CheckInit ==
    /\ \E raw \in SeqsUpTo(CheckedStates, MaxChecked) \ {<<>>} :
        /\ kinstances = CheckedInstances(raw)
        /\ kresponse \in [DOMAIN raw -> StructTypes]
    /\ kresults = <<>>
    /\ kstatus = "call"

CheckIdle ==
    /\ kinstances = <<>>
    /\ kresponse = <<>>
    /\ kresults = <<>>
    /\ kstatus = "idle"

\* lines 112-121: the callback runs on the response
CallbackCheck ==
    /\ kstatus = "call"
    /\ LET out == CheckStructures(kresponse, kinstances) IN
        /\ kresults' = out.results
        /\ kstatus' = out.status
    /\ UNCHANGED <<kinstances, kresponse>>
    /\ UNCHANGED checkOthers

CheckNext == CallbackCheck

(***************************************************************************)
(* Compiling one query more than once: RedisQuery._build and the store.    *)
(***************************************************************************)
\* the primary keys of the instances in the store
StoredIds == {1, 2, 3}

\* the instances the query script selects for a field name and its lookups:
\* the content of the indexes of the store
Index(args) ==
    IF args.pkname
    THEN (IF args.lookups = 0 THEN StoredIds ELSE {1})
    ELSE (IF args.lookups = 0 THEN {1, 2} ELSE {2, 3})

\* the store before any compilation: the primary-key index
PermanentStore == [k \in {IdKey} |-> StoredIds]

Members(store, k) == IF k \in DOMAIN store THEN store[k] ELSE {}

StoreInto(store, k, ids) ==
    [x \in DOMAIN store \cup {k} |-> IF x = k THEN ids ELSE Members(store, x)]

RECURSIVE InterAll(_, _)
InterAll(store, keys) ==
    IF keys = <<>> THEN {}
    ELSE IF Len(keys) = 1 THEN Members(store, keys[1])
    ELSE Members(store, Head(keys)) \cap InterAll(store, Tail(keys))

UnionAll(store, keys) == UNION {Members(store, keys[j]) : j \in DOMAIN keys}

DiffAll(store, keys) ==
    IF keys = <<>> THEN {}
    ELSE Members(store, Head(keys)) \ UnionAll(store, Tail(keys))

\* what one command of the compiler does to the store
StoreCommand(store, c) ==
    IF c.op = "odmrun_query"
    THEN LET from == Tail(c.keys)
             among == IF from = <<>> THEN StoredIds ELSE InterAll(store, from)
         IN StoreInto(store, c.dest,
                      Members(store, c.dest) \cup (Index(c.args) \cap among))
    ELSE IF c.op \in {"sinterstore", "zinterstore"}
    THEN StoreInto(store, c.dest, InterAll(store, c.keys))
    ELSE IF c.op \in {"sunionstore", "zunionstore"}
    THEN StoreInto(store, c.dest, UnionAll(store, c.keys))
    ELSE IF c.op \in {"sdiffstore", "zdiffstore"}
    THEN StoreInto(store, c.dest, DiffAll(store, c.keys))
    ELSE IF c.op = "sort"
    THEN StoreInto(store, c.dest, Members(store, c.keys[1]))
    ELSE store

RECURSIVE StoreRun(_, _)
\* pipe.execute(): the commands run in the order they were queued
StoreRun(store, cmds) ==
    IF cmds = <<>> THEN store
    ELSE StoreRun(StoreCommand(store, Head(cmds)), Tail(cmds))

TwiceInit ==
    /\ wtree \in Trees(MaxNodes)
    /\ wordered \in BOOLEAN
    /\ wstore = PermanentStore
    /\ wnext = 1
    /\ wruns = <<>>

TwiceIdle ==
    /\ wtree = <<>>
    /\ wordered = FALSE
    /\ wstore = <<>>
    /\ wnext = 0
    /\ wruns = <<>>

\* a compilation that returns: _build with a pipeline of its own, then
\* _execute_query, which executes the pipeline
CompileAndRun ==
    /\ Len(wruns) < MaxCompiles
    /\ LET b == Build(wtree, wnext, wordered) IN
        /\ b.status = "built"
        /\ LET after == StoreRun(wstore, b.cmds) IN
            /\ wstore' = after
            /\ wruns' = Append(wruns, [status |-> "built", key |-> b.key,
                                       members |-> Members(after, b.key)])
        /\ wnext' = b.next
    /\ UNCHANGED <<wtree, wordered>>
    /\ UNCHANGED twiceOthers

\* a compilation that raises: the pipeline is dropped, the temporary keys it
\* has named are used up
CompileRaises ==
    /\ Len(wruns) < MaxCompiles
    /\ LET b == Build(wtree, wnext, wordered) IN
        /\ b.status # "built"
        /\ wruns' = Append(wruns, [status |-> b.status, key |-> NoKey,
                                   members |-> {}])
        /\ wnext' = b.next
    /\ UNCHANGED <<wtree, wordered, wstore>>
    /\ UNCHANGED twiceOthers

TwiceNext ==
    \/ CompileAndRun
    \/ CompileRaises

(***************************************************************************)
(* The construction of a field: Field.__init__ and its subclasses.         *)
(***************************************************************************)
FieldClasses == {"Field", "BooleanField", "FloatField", "CharField"}

\* an argument that is True, False, or left out (None)
OptBool == {"None", "True", "False"}

\* x if x is not None else default
OrDefault(x, default) == IF x = "None" THEN default ELSE x = "True"

\* the keyword arguments of a constructor call
FieldKwargs ==
    [unique : BOOLEAN, primary_key : BOOLEAN, required : OptBool,
     index : OptBool]

\* the class attribute index: True on Field, False on FloatField
ClassIndex(cls) == cls # "FloatField"

\* mutant: unique does not force the index
FieldAttributesKeepIndex(cls, unique, primary_key, required, index) ==
    LET idx == OrDefault(index, ClassIndex(cls)) IN
    IF primary_key
    THEN [primary_key |-> TRUE, unique |-> TRUE, required |-> TRUE,
          index |-> TRUE]
    ELSE [primary_key |-> FALSE, unique |-> unique, required |-> required,
          index |-> idx]

\* lines 136-148: Field.__init__
FieldAttributes(cls, unique, primary_key, required, index) ==
    LET idx == OrDefault(index, ClassIndex(cls)) IN
    IF primary_key
    THEN [primary_key |-> TRUE, unique |-> TRUE, required |-> TRUE,
          index |-> TRUE]
    ELSE [primary_key |-> FALSE, unique |-> unique, required |-> required,
          index |-> IF unique THEN TRUE ELSE idx]

\* the constructor of the class, called with keyword arguments
Construct(cls, kw) ==
    IF cls = "CharField"
    \* lines 453-462: index, unique and primary_key are forced to False,
    \* required is False unless given
    THEN FieldAttributes(cls, FALSE, FALSE, OrDefault(kw.required, FALSE),
                         "False")
    ELSE IF cls = "BooleanField"
    \* lines 342-343: required is False unless given
    THEN FieldAttributes(cls, kw.unique, kw.primary_key,
                         OrDefault(kw.required, FALSE), kw.index)
    \* lines 136-137: required is True unless given
    ELSE FieldAttributes(cls, kw.unique, kw.primary_key,
                         OrDefault(kw.required, TRUE), kw.index)

NoField ==
    [primary_key |-> FALSE, unique |-> FALSE, required |-> FALSE,
     index |-> FALSE]

FieldInit ==
    /\ fclass \in FieldClasses
    /\ fkwargs \in FieldKwargs
    /\ ffield = NoField
    /\ fstatus = "new"

FieldIdle ==
    /\ fclass = ""
    /\ fkwargs = <<>>
    /\ ffield = NoField
    /\ fstatus = "idle"

\* cls(unique=..., primary_key=..., required=..., index=...)
FieldConstruct ==
    /\ fstatus = "new"
    /\ ffield' = Construct(fclass, fkwargs)
    /\ fstatus' = "constructed"
    /\ UNCHANGED <<fclass, fkwargs>>
    /\ UNCHANGED fieldOthers

FieldNext == FieldConstruct

(***************************************************************************)
(* Lookups in a stored timeseries: ColumnTS.range, get, load_data, _get.   *)
(***************************************************************************)
\* pickler.dumps / pickler.loads of a timestamp, value_pickler.loads of a
\* stored value
Dumps(dt) == 10 * dt
Loads(t) == t \div 10
VLoads(d) == IF d = "a" THEN 1 ELSE 2

\* the timeseries held by the store: every timestamp has a value per field
Stores ==
    UNION {[{Dumps(t) : t \in T} -> [TsFields -> TsValues]] :
              T \in SUBSET Timestamps}

\* the *fields of a call
FieldTuples == {<<>>, <<"open">>, <<"close">>, <<"open", "close">>}

\* what can be bound to novalues and to callback: a flag, nothing, or the
\* bound method self._get
Truthy(x) == x \notin {"False", "None"}

RECURSIVE SortedTimes(_)
SortedTimes(S) ==
    IF S = {} THEN <<>>
    ELSE LET t == CHOOSE x \in S : \A y \in S : x <= y
         IN <<t>> \o SortedTimes(S \ {t})

\* backend_structure().range(start, end, fields, novalues): the timestamps
\* within the bounds, in order, and per requested field the values at those
\* timestamps; timestamps only when novalues is true
BackendRange(store, start, end, fields, novalues) ==
    LET times == SortedTimes({t \in DOMAIN store : start <= t /\ t <= end})
        names == IF fields = <<>> THEN <<"close", "open">> ELSE fields
    IN <<times,
         IF Truthy(novalues) THEN <<>>
         ELSE [i \in DOMAIN names |->
                  <<names[i],
                    [j \in DOMAIN times |-> store[times[j]][names[i]]]>>]>>

\* lines 145-151: load_data
LoadData(result) ==
    LET names == {result[2][i][1] : i \in DOMAIN result[2]}
        DataOf(f) == result[2][CHOOSE i \in DOMAIN result[2] :
                                   result[2][i][1] = f][2]
    IN [dt |-> [i \in DOMAIN result[1] |-> Loads(result[1][i])],
        vals |-> [f \in names |->
                     [j \in DOMAIN DataOf(f) |-> VLoads(DataOf(f)[j])]]]

\* the value of a call, by kind: None, a list of values, a dictionary of
\* field to value, or the (dt, vals) pair of load_data
Out(kind, value) == [kind |-> kind, value |-> value]

\* lines 153-159: _get
PrivateGet(result) ==
    LET l == LoadData(result) IN
    IF l.dt # <<>>
    THEN IF Cardinality(DOMAIN l.vals) = 1
         THEN Out("values", l.vals[CHOOSE f \in DOMAIN l.vals : TRUE])
         ELSE Out("mapping", [f \in DOMAIN l.vals |-> l.vals[f][1]])
    ELSE Out("None", <<>>)

\* async_handle(res, callback): the callback applied to the result
AsyncHandle(res, callback) ==
    IF callback = "_get" THEN PrivateGet(res)
    ELSE Out("loaded", LoadData(res))

\* lines 79-83: range(start, end, fields=None, novalues=False, callback=None)
ColumnTSRange(store, start, end, fields, novalues, callback) ==
    LET s == Dumps(start)
        e == Dumps(end)
        res == BackendRange(store, s, e, fields, novalues)
        cb == IF Truthy(callback) THEN callback ELSE "load_data"
    IN [call |-> [start |-> s, end |-> e, fields |-> fields,
                  novalues |-> novalues, callback |-> cb],
        out |-> AsyncHandle(res, cb)]

\* lines 85-86: get(dt, *fields) calls range(dt, dt, fields, self._get); the
\* fourth positional parameter of range is novalues
ColumnTSGet(store, dt, fields) ==
    ColumnTSRange(store, dt, dt, fields, "_get", "None")

NoLookup == [op |-> "none", start |-> 0, end |-> 0, fields |-> <<>>]

GetInit ==
    /\ gstore \in Stores
    /\ gop = NoLookup
    /\ gcall = <<>>
    /\ gout = Out("none", <<>>)

GetIdle ==
    /\ gstore = <<>>
    /\ gop = [op |-> "idle", start |-> 0, end |-> 0, fields |-> <<>>]
    /\ gcall = <<>>
    /\ gout = Out("none", <<>>)

\* ts.get(dt, *fields)
GetCall(dt, fields) ==
    /\ gop.op = "none"
    /\ LET r == ColumnTSGet(gstore, dt, fields) IN
        /\ gcall' = r.call
        /\ gout' = r.out
    /\ gop' = [op |-> "get", start |-> dt, end |-> dt, fields |-> fields]
    /\ UNCHANGED gstore
    /\ UNCHANGED getOthers

\* ts.range(start, end, fields, novalues)
RangeCall(start, end, fields, novalues) ==
    /\ gop.op = "none"
    /\ LET r == ColumnTSRange(gstore, start, end, fields, novalues, "None") IN
        /\ gcall' = r.call
        /\ gout' = r.out
    /\ gop' = [op |-> "range", start |-> start, end |-> end,
               fields |-> fields]
    /\ UNCHANGED gstore
    /\ UNCHANGED getOthers

GetNext ==
    \/ \E dt \in Timestamps, fields \in FieldTuples : GetCall(dt, fields)
    \/ \E start, end \in Timestamps, fields \in FieldTuples,
          novalues \in {"False", "True"} :
            RangeCall(start, end, fields, novalues)

(***************************************************************************)
(* Flattening of a nested dictionary and back: dict_flat_generator and     *)
(* flat_to_nested.  A string is the sequence of its characters; a value is *)
(* a leaf or a dictionary of keys to values.                               *)
(***************************************************************************)
\* line 6: JSPLITTER = '__'
JSPLITTER == <<"_", "_">>

Leaf(n) == [leaf |-> TRUE, val |-> n, kids |-> <<>>]
Dict(kids) == [leaf |-> FALSE, val |-> 0, kids |-> kids]
EmptyDict == Dict(<<>>)

\* d[k] = v
Put(d, k, v) ==
    Dict([x \in DOMAIN d.kids \cup {k} |-> IF x = k THEN v ELSE d.kids[x]])

\* the keys of the dictionaries: 'a', 'b', '_' and 'a__b', all non-empty
JsonKeys == {<<"a">>, <<"b">>, <<"_">>, <<"a", "_", "_", "b">>}
Leaves == {Leaf(1), Leaf(2)}

\* the attribute names: none, and 'd'
Attnames == {<<>>, <<"d">>}

RECURSIVE DictsOf(_)
\* the dictionaries that hold n keys in all, sub-dictionaries included
DictsOf(n) ==
    IF n = 0 THEN {EmptyDict}
    ELSE UNION {{Put(d, k, v) :
                    d \in {x \in DictsOf(n - c) : k \notin DOMAIN x.kids},
                    v \in DictsOf(c - 1) \cup (IF c = 1 THEN Leaves ELSE {})} :
                k \in JsonKeys, c \in 1..n}

RECURSIVE SplitFrom(_, _, _)
SplitFrom(s, sep, cur) ==
    IF s = <<>> THEN <<cur>>
    ELSE IF Len(s) >= Len(sep) /\ SubSeq(s, 1, Len(sep)) = sep
    THEN <<cur>> \o SplitFrom(SubSeq(s, Len(sep) + 1, Len(s)), sep, <<>>)
    ELSE SplitFrom(Tail(s), sep, Append(cur, Head(s)))

\* key.split(separator)
Split(s, sep) == SplitFrom(s, sep, <<>>)

RECURSIVE DictFlatGenerator(_, _, _, _, _)
\* lines 121-141: the (name, value) pairs generated, and whether the
\* generator raised; recursive is the truth of the field passed down
DictFlatGenerator(value, attname, splitter, prefix, recursive) ==
    IF value.leaf \/ ~recursive
    THEN IF prefix = <<>>
         THEN [raised |-> TRUE, pairs |-> {}]
         ELSE [raised |-> FALSE,
               pairs |-> {<<IF attname # <<>>
                            THEN attname \o splitter \o prefix ELSE prefix,
                            value>>}]
    ELSE LET KeyFor(field) ==
                 IF field # <<>>
                 THEN IF prefix # <<>> THEN prefix \o splitter \o field
                      ELSE field
                 ELSE prefix
             subs == {DictFlatGenerator(value.kids[field], attname, splitter,
                                        KeyFor(field), field # <<>>) :
                         field \in DOMAIN value.kids}
         IN [raised |-> \E s \in subs : s.raised,
             pairs |-> UNION {s.pairs : s \in subs}]

\* dict(pairs): one value per name, the last generated of that name, the
\* order of generation being the iteration order of the dictionaries
DictOfPairs(pairs) ==
    {f \in [{p[1] : p \in pairs} -> {p[2] : p \in pairs}] :
        \A n \in DOMAIN f : <<n, f[n]>> \in pairs}

RECURSIVE Insert(_, _, _)
\* lines 101-117: v is put into d under the path keys
Insert(d, keys, v) ==
    LET k == Head(keys) IN
    IF Len(keys) = 1
    THEN IF k \notin DOMAIN d.kids
         THEN [ok |-> TRUE, d |-> Put(d, k, v)]
         ELSE IF d.kids[k].leaf
         THEN [ok |-> FALSE, d |-> d]
         ELSE [ok |-> TRUE, d |-> Put(d, k, Put(d.kids[k], <<>>, v))]
    ELSE LET nd == IF k \notin DOMAIN d.kids THEN EmptyDict
                   ELSE IF d.kids[k].leaf
                   THEN Put(EmptyDict, <<>>, d.kids[k])
                   ELSE d.kids[k]
             sub == Insert(nd, Tail(keys), v)
         IN [ok |-> sub.ok, d |-> Put(d, k, sub.d)]

RECURSIVE FlatToNested(_, _, _, _, _)
\* lines 92-118: flat_to_nested(data, attname = attname, separator =
\* separator), the keys of data being visited in the given order
FlatToNested(val, data, attname, separator, order) ==
    IF order = <<>> THEN [status |-> "returned", val |-> val]
    ELSE
        LET key == Head(order)
            split == Split(key, separator)
        IN IF attname # <<>> /\ Head(split) # attname
           THEN FlatToNested(val, data, attname, separator, Tail(order))
           ELSE LET keys == IF attname # <<>> THEN Tail(split) ELSE split IN
                IF keys = <<>>
                THEN [status |-> "IndexError", val |-> val]
                ELSE LET r == Insert(val, keys, data[key]) IN
                     IF ~r.ok THEN [status |-> "TypeError", val |-> val]
                     ELSE FlatToNested(r.d, data, attname, separator,
                                       Tail(order))

\* the orders in which the keys of a dictionary may be visited
Orders(S) ==
    {o \in [1..Cardinality(S) -> S] :
        \A i, j \in DOMAIN o : o[i] = o[j] => i = j}

JsonInit ==
    /\ jvalue \in Leaves \cup UNION {DictsOf(n) : n \in 0..MaxEntries}
    /\ jattname \in Attnames
    /\ jdata = <<>>
    /\ jval = EmptyDict
    /\ jstatus = "new"

JsonIdle ==
    /\ jvalue = EmptyDict
    /\ jattname = <<>>
    /\ jdata = <<>>
    /\ jval = EmptyDict
    /\ jstatus = "idle"

\* dict(dict_flat_generator(value, attname = attname))
DictFlat ==
    /\ jstatus = "new"
    /\ LET g == DictFlatGenerator(jvalue, jattname, JSPLITTER, <<>>, TRUE) IN
        IF g.raised
        THEN jstatus' = "ValueError" /\ UNCHANGED jdata
        ELSE /\ jstatus' = "flat"
             /\ \E data \in DictOfPairs(g.pairs) : jdata' = data
    /\ UNCHANGED <<jvalue, jattname, jval>>
    /\ UNCHANGED jsonOthers

\* flat_to_nested(data, attname = attname)
FlatToNestedCall ==
    /\ jstatus = "flat"
    /\ \E order \in Orders(DOMAIN jdata) :
        LET r == FlatToNested(EmptyDict, jdata, jattname, JSPLITTER, order) IN
        /\ jval' = r.val
        /\ jstatus' = r.status
    /\ UNCHANGED <<jvalue, jattname, jdata>>
    /\ UNCHANGED jsonOthers

JsonNext ==
    \/ DictFlat
    \/ FlatToNestedCall

(***************************************************************************)
(* Specifications.                                                         *)
(***************************************************************************)
InitFlush ==
    /\ FlushInit
    /\ DeleteIdle
    /\ SessionIdle
    /\ CommitIdle
    /\ BuildIdle
    /\ ItemsIdle
    /\ TsIdle
    /\ MergeIdle
    /\ CheckIdle
    /\ TwiceIdle
    /\ FieldIdle
    /\ GetIdle
    /\ JsonIdle

SpecFlush == InitFlush /\ [][FlushNext]_vars

InitDelete ==
    /\ DeleteInit
    /\ FlushIdle
    /\ SessionIdle
    /\ CommitIdle
    /\ BuildIdle
    /\ ItemsIdle
    /\ TsIdle
    /\ MergeIdle
    /\ CheckIdle
    /\ TwiceIdle
    /\ FieldIdle
    /\ GetIdle
    /\ JsonIdle

SpecDelete == InitDelete /\ [][DeleteNext]_vars

InitSession ==
    /\ SessionInit
    /\ FlushIdle
    /\ dphase = "idle" /\ droot = 0 /\ dpipe = <<>>
    /\ CommitIdle
    /\ BuildIdle
    /\ ItemsIdle
    /\ TsIdle
    /\ MergeIdle
    /\ CheckIdle
    /\ TwiceIdle
    /\ FieldIdle
    /\ GetIdle
    /\ JsonIdle

SpecSession == InitSession /\ [][SessionNext]_vars

InitCommit ==
    /\ CommitInit
    /\ FlushIdle
    /\ DeleteIdle
    /\ SessionIdle
    /\ BuildIdle
    /\ ItemsIdle
    /\ TsIdle
    /\ MergeIdle
    /\ CheckIdle
    /\ TwiceIdle
    /\ FieldIdle
    /\ GetIdle
    /\ JsonIdle

SpecCommit == InitCommit /\ [][CommitNext]_vars

InitBuild ==
    /\ BuildInit
    /\ FlushIdle
    /\ DeleteIdle
    /\ SessionIdle
    /\ CommitIdle
    /\ ItemsIdle
    /\ TsIdle
    /\ MergeIdle
    /\ CheckIdle
    /\ TwiceIdle
    /\ FieldIdle
    /\ GetIdle
    /\ JsonIdle

SpecBuild == InitBuild /\ [][BuildNext]_vars

InitItems ==
    /\ ItemsInit
    /\ FlushIdle
    /\ DeleteIdle
    /\ SessionIdle
    /\ CommitIdle
    /\ BuildIdle
    /\ TsIdle
    /\ MergeIdle
    /\ CheckIdle
    /\ TwiceIdle
    /\ FieldIdle
    /\ GetIdle
    /\ JsonIdle

SpecItems == InitItems /\ [][ItemsNext]_vars

InitTs ==
    /\ TsInit
    /\ FlushIdle
    /\ DeleteIdle
    /\ SessionIdle
    /\ CommitIdle
    /\ BuildIdle
    /\ ItemsIdle
    /\ MergeIdle
    /\ CheckIdle
    /\ TwiceIdle
    /\ FieldIdle
    /\ GetIdle
    /\ JsonIdle

SpecTs == InitTs /\ [][TsNext]_vars

InitMerge ==
    /\ MergeInit
    /\ FlushIdle
    /\ DeleteIdle
    /\ SessionIdle
    /\ CommitIdle
    /\ BuildIdle
    /\ ItemsIdle
    /\ TsIdle
    /\ CheckIdle
    /\ TwiceIdle
    /\ FieldIdle
    /\ GetIdle
    /\ JsonIdle

SpecMerge == InitMerge /\ [][MergeNext]_vars

InitCheck ==
    /\ CheckInit
    /\ FlushIdle
    /\ DeleteIdle
    /\ SessionIdle
    /\ CommitIdle
    /\ BuildIdle
    /\ ItemsIdle
    /\ TsIdle
    /\ MergeIdle
    /\ TwiceIdle
    /\ FieldIdle
    /\ GetIdle
    /\ JsonIdle

SpecCheck == InitCheck /\ [][CheckNext]_vars

InitTwice ==
    /\ TwiceInit
    /\ FlushIdle
    /\ DeleteIdle
    /\ SessionIdle
    /\ CommitIdle
    /\ BuildIdle
    /\ ItemsIdle
    /\ TsIdle
    /\ MergeIdle
    /\ CheckIdle
    /\ FieldIdle
    /\ GetIdle
    /\ JsonIdle

SpecTwice == InitTwice /\ [][TwiceNext]_vars

InitField ==
    /\ FieldInit
    /\ FlushIdle
    /\ DeleteIdle
    /\ SessionIdle
    /\ CommitIdle
    /\ BuildIdle
    /\ ItemsIdle
    /\ TsIdle
    /\ MergeIdle
    /\ CheckIdle
    /\ TwiceIdle
    /\ GetIdle
    /\ JsonIdle

SpecField == InitField /\ [][FieldNext]_vars

InitGet ==
    /\ GetInit
    /\ FlushIdle
    /\ DeleteIdle
    /\ SessionIdle
    /\ CommitIdle
    /\ BuildIdle
    /\ ItemsIdle
    /\ TsIdle
    /\ MergeIdle
    /\ CheckIdle
    /\ TwiceIdle
    /\ FieldIdle
    /\ JsonIdle

SpecGet == InitGet /\ [][GetNext]_vars

InitJson ==
    /\ JsonInit
    /\ FlushIdle
    /\ DeleteIdle
    /\ SessionIdle
    /\ CommitIdle
    /\ BuildIdle
    /\ ItemsIdle
    /\ TsIdle
    /\ MergeIdle
    /\ CheckIdle
    /\ TwiceIdle
    /\ FieldIdle
    /\ GetIdle

SpecJson == InitJson /\ [][JsonNext]_vars

(***************************************************************************)
(* Claims on the flattening of JSON values, checked under SpecJson.        *)
(***************************************************************************)
\* C37: for every nested dictionary with non-empty string keys and
\* non-dictionary leaves, flat_to_nested applied to the pairs generated by
\* dict_flat_generator, with the same attname and separator, returns the
\* dictionary it started from, in whatever order the flat keys are visited.
C37_FlatRoundTrip ==
    (~jvalue.leaf /\ jstatus \notin {"new", "flat"}) =>
        (jstatus = "returned" /\ jval = jvalue)

(***************************************************************************)
(* Claims on the lookups in a timeseries, checked under SpecGet.           *)
(***************************************************************************)
\* what _get makes of the values stored at timestamp dt for the fields asked
PointLookup(store, dt, fields) ==
    LET names == IF fields = <<>> THEN {"close", "open"} ELSE Range(fields) IN
    IF Dumps(dt) \notin DOMAIN store THEN Out("None", <<>>)
    ELSE IF Cardinality(names) = 1
    THEN Out("values", <<VLoads(store[Dumps(dt)][CHOOSE f \in names : TRUE])>>)
    ELSE Out("mapping", [f \in names |-> VLoads(store[Dumps(dt)][f])])

\* C35: get(dt, *fields) issues a range query with both bounds equal to dt
\* for the fields asked and with values enabled, and returns what _get makes
\* of the result: None when the timestamp is absent, the values of the field
\* when one field is returned, a field-to-value mapping when several are.
C35_GetIsPointLookup ==
    gop.op = "get" =>
        /\ gcall.start = Dumps(gop.start) /\ gcall.end = Dumps(gop.start)
        /\ gcall.fields = gop.fields
        /\ ~Truthy(gcall.novalues)
        /\ gcall.callback = "_get"
        /\ gout = PointLookup(gstore, gop.start, gop.fields)

(***************************************************************************)
(* Claims on the construction of a field, checked under SpecField.         *)
(***************************************************************************)
\* C25: a field constructed with any combination of the unique, index,
\* required and primary_key arguments has unique, required and index all
\* True when it is the primary key, and index True when it is unique.
C25_KeyFlagsConsistent ==
    fstatus = "constructed" =>
        /\ ffield.primary_key =>
            (ffield.unique /\ ffield.required /\ ffield.index)
        /\ ffield.unique => ffield.index

C25_Witness ==
    /\ fstatus = "constructed"
    /\ fclass = "FloatField"
    /\ fkwargs.unique /\ ~fkwargs.primary_key /\ fkwargs.index = "False"
    /\ ffield.unique /\ ffield.index /\ ~ffield.primary_key

SomeUndeletable == \E j \in DOMAIN kinstances : Undeletable(kinstances[j])

\* one result per processed instance, in order, with its iid, id and deleted
OneResultPerInstance ==
    /\ Len(kresults) = Len(kinstances)
    /\ \A j \in DOMAIN kinstances :
        /\ kresults[j].iid = kinstances[j].iid
        /\ kresults[j].id = kinstances[j].id
        /\ kresults[j].deleted = kinstances[j].deleted

\* C21: when the response of the structure check has been processed, an
\* instance flagged deleted and still persistent has raised
\* InvalidTransaction; without such an instance the callback has returned
\* one result per processed instance, in order, with its iid, id and
\* deleted flag.
C21_UndeletableIsInvalidTransaction ==
    kstatus \notin {"call", "idle"} =>
        IF SomeUndeletable
        THEN kstatus = "InvalidTransaction"
        ELSE kstatus = "done" /\ OneResultPerInstance

(***************************************************************************)
(* Claims on the merge of timeseries, checked under SpecMerge.             *)
(***************************************************************************)
MergeEnded == mstatus \notin {"new", "idle"}

SomeShort == \E i \in DOMAIN mseries : Len(mseries[i]) = 0

\* the sessions of the timeseries of the tuples, in the order of the loops
RECURSIVE OperandSessions(_)
OperandSessions(series) ==
    IF series = <<>> THEN <<>>
    ELSE Head(series) \o OperandSessions(Tail(series))

NoneBound ==
    /\ mtsession0 = NoSession
    /\ \A i \in DOMAIN OperandSessions(mseries) :
        OperandSessions(mseries)[i] = NoSession

\* the session of the target if it has one, else of the first timeseries
\* that has one
ExpectedSession ==
    IF mtsession0 # NoSession THEN mtsession0
    ELSE LET ops == OperandSessions(mseries)
             i == CHOOSE k \in DOMAIN ops :
                    /\ ops[k] # NoSession
                    /\ \A l \in 1..(k - 1) : ops[l] = NoSession
         IN ops[i]

\* C18: when a tuple of the series holds no timeseries besides the weight,
\* merge raises ValueError; neither the backend merge nor session.add is
\* called and the session of the target is unchanged.
C18_ShortTupleIsValueError ==
    (MergeEnded /\ SomeShort) =>
        /\ mstatus = "ValueError"
        /\ mlog = <<>>
        /\ mdirty = {}
        /\ ~mstored
        /\ mtsession = mtsession0

\* a short tuple after a tuple whose timeseries is bound to a session
C18_Witness ==
    /\ mstatus = "ValueError"
    /\ mtsession0 = NoSession
    /\ Len(mseries) = 2
    /\ mseries[1] = <<1>> /\ mseries[2] = <<>>

\* what merge does when it finds a session or none
MergeOutcome ==
    IF NoneBound
    THEN mstatus = "SessionNotAvailable" /\ mlog = <<>> /\ mdirty = {}
    ELSE /\ mstatus \in {"merged", "drained"}
         /\ mtsession = ExpectedSession
         /\ Len(mlog) >= 2
         /\ mlog[1] = MEvent("backend_merge", ExpectedSession)
         /\ mlog[2] = MEvent("session_add", ExpectedSession)
         /\ \A i \in DOMAIN mlog :
                mlog[i].ev = "session_add" => i = 2
         /\ mdirty = {ExpectedSession}

\* C19 as stated: merge raises SessionNotAvailable exactly when neither the
\* target nor any timeseries of the series is bound to a session, and then
\* calls nothing; otherwise it takes the session of the target, else of the
\* first timeseries that has one, and adds the target to it after the
\* backend merge.
C19_NoSessionExactly ==
    MergeEnded => MergeOutcome

\* C19 amended: the same, for a series in which every tuple holds a
\* timeseries; with a short tuple merge raises ValueError instead.
C19_NoSessionExactlyWhenWellFormed ==
    MergeEnded =>
        IF SomeShort THEN mstatus = "ValueError" ELSE MergeOutcome

\* the target has no session, the first timeseries is bound to session 2
\* and the second to session 1
C19_Witness ==
    /\ mstatus = "merged"
    /\ mtsession0 = NoSession
    /\ OperandSessions(mseries) = <<2, 1>>
    /\ mtsession = 2
    /\ mlog = <<MEvent("backend_merge", 2), MEvent("session_add", 2)>>

\* C20: once merged_series has returned, the store holds nothing under the
\* key of the scratch target and no session holds the target as pending.
C20_NothingLeftBehind ==
    mstatus = "drained" => (~mstored /\ mdirty = {})

(***************************************************************************)
(* Claims on the cache of a timeseries, checked under SpecTs.              *)
(***************************************************************************)
\* the buffer of a field, or the empty one when the field has none
BufferOf(c, f) == IF f \in DOMAIN c.fields THEN c.fields[f] ELSE <<>>

\* C17: the buffer of each field holds one entry per timestamp added, in
\* the order of the timestamps, with the value of the last add for that field
\* and timestamp; an add leaves the buffers of the other fields and the
\* delete sets as they were.
C17_OneEntryPerTimestamp ==
    /\ \A f \in TsFields :
        LET sl == BufferOf(tcache, f) IN
        /\ \A i, j \in DOMAIN sl : i < j => sl[i][1] < sl[j][1]
        /\ \A ts \in Timestamps :
            IF tlast[<<f, ts>>] = ""
            THEN \A i \in DOMAIN sl : sl[i][1] # ts
            ELSE \E i \in DOMAIN sl : sl[i] = <<ts, tlast[<<f, ts>>]>>
    /\ top.kind = "add" =>
        /\ \A g \in TsFields \ top.fields :
            BufferOf(tcache, g) = BufferOf(tprev, g)
        /\ tcache.delete_fields = tprev.delete_fields
        /\ tcache.deleted_timestamps = tprev.deleted_timestamps

\* a timestamp added twice to a field that holds a later one, next to
\* another field
C17_Witness ==
    /\ top.kind = "add" /\ top.fields = {"open"} /\ top.ts = 1
    /\ BufferOf(tprev, "open") = <<(<<1, "a">>), (<<2, "a">>)>>
    /\ BufferOf(tcache, "open") = <<(<<1, "b">>), (<<2, "a">>)>>
    /\ BufferOf(tcache, "close") # <<>>

(***************************************************************************)
(* Claims on the loading of items, checked under SpecItems.                *)
(***************************************************************************)
ItemsEnded == ires.status \in {"loaded", "QuerySetError"}

\* C11: _items raises QuerySetError exactly when a slice is given together
\* with a get_field that is not the primary key; a slice with a get_field on
\* the primary key, a slice alone or a get_field alone does not raise.
C11_UsageErrorOnlyOffPk ==
    ItemsEnded =>
        (ires.status = "QuerySetError" <=> (iq.slic.given /\ iq.get = "field"))

\* C12: when _items raises QuerySetError, the call has sent nothing to the
\* store: no pipeline was executed and no load script was sent.
C12_UsageErrorBeforeNetwork ==
    ires.status = "QuerySetError" => ~ires.called

\* the slice has a start or a stop: the test of line 288
Sliced(q) == GetRedisSlice(q.slic).start # 0 \/ ~GetRedisSlice(q.slic).stop.none

\* C14: the ordering of the query element is used whenever there is one;
\* otherwise the ordering of the model, by name only and with no explicit
\* sort; otherwise the primary-key ordering if and only if the query is
\* sliced; otherwise no ordering.
C14_OrderingResolution ==
    ItemsEnded =>
        IF iq.ordering
        THEN ires.order = "query" /\ ires.ordering = "explicit"
        ELSE IF iq.mordering # "none"
        THEN ires.order = "none" /\ ires.ordering = iq.mordering
        ELSE IF Sliced(iq)
        THEN ires.order = "pk" /\ ires.ordering = "explicit"
        ELSE ires.order = "none" /\ ires.ordering = ""

C14_Witness ==
    /\ ires.status = "loaded"
    /\ ~iq.ordering /\ iq.mordering = "none" /\ iq.get = ""
    /\ iq.slic.given /\ iq.slic.start = None /\ iq.slic.stop = Some(2)
    /\ ires.order = "pk"

\* C15: under an explicit ordering the slice [start:stop] of a query of N
\* elements is loaded with start' = start + N if start < 0 else start and
\* the length stop' - start', where stop' = N if stop is None, stop + N if
\* stop < 0, else stop.
C15_SliceResolution ==
    (ires.status = "loaded" /\ ires.ordering = "explicit") =>
        LET start == IF iq.slic.given /\ ~iq.slic.start.none
                     THEN iq.slic.start.v ELSE 0
            stop == IF iq.slic.given THEN iq.slic.stop ELSE None
            start1 == IF start < 0 THEN start + iq.n ELSE start
            stop1 == IF stop.none THEN iq.n
                     ELSE IF stop.v < 0 THEN stop.v + iq.n ELSE stop.v
        IN ires.start = start1 /\ ires.stop = stop1 - start1

\* ten elements and the slice [-3:-1]: start 7, length 2
C15_Witness ==
    /\ ires.status = "loaded" /\ ires.ordering = "explicit"
    /\ iq.n = 10
    /\ iq.slic.given /\ iq.slic.start = Some(-3) /\ iq.slic.stop = Some(-1)
    /\ ires.start = 7 /\ ires.stop = 2

\* C16: under an explicit ordering the start and the length passed to the
\* load script are not negative.
C16_OffsetsNonNegative ==
    (ires.status = "loaded" /\ ires.ordering = "explicit") =>
        (ires.start >= 0 /\ ires.stop >= 0)

(***************************************************************************)
(* Claims on the query compiler, checked under SpecBuild.                  *)
(***************************************************************************)
ExpiresQueued(k) ==
    \E j \in DOMAIN bpipe : bpipe[j].op = "expire" /\ bpipe[j].dest = k

\* the commands that store into a temporary key
WritesTemp(c) == c.op # "expire" /\ c.dest.tmp

\* C1: once _build has ended, by returning or by raising, every temporary
\* key that a queued command stores into has an expire command queued on the
\* same pipeline.
C1_TempKeysExpire ==
    bstatus \notin {"new", "idle"} =>
        \A i \in DOMAIN bpipe :
            WritesTemp(bpipe[i]) => ExpiresQueued(bpipe[i].dest)

\* the commands _build has queued: the cardinality command that
\* _execute_query appends is not one of them
BuiltCommands == SelectSeq(bpipe, LAMBDA c : c.op \notin {"scard", "zcard", "llen"})

\* a query of keyword 'set' on the primary key with no child, no where
\* clause and no projection on another field
PlainPkQuery(node) ==
    /\ node.keyword = "set" /\ node.pkname
    /\ node.lookups = 0 /\ node.sub = <<>>
    /\ ~node.where /\ node.gf # "field"

\* C23: for a query of keyword 'set' that names the primary key and has no
\* lookup argument, no where clause and no projection on another field,
\* _build returns the permanent primary-key index key, takes no temporary
\* key and queues no script call and no expire command (no command at all).
C23_PkIndexReused ==
    (bstatus \notin {"new", "idle"} /\ PlainPkQuery(qtree)) =>
        /\ bstatus \in {"built", "executed"}
        /\ bkey = IdKey
        /\ Build(qtree, 1, qordered).next = 1
        /\ BuiltCommands = <<>>

C23_Witness ==
    /\ bstatus = "built" /\ PlainPkQuery(qtree) /\ qtree.gf = "id"
    /\ bkey = IdKey /\ bpipe = <<>>

\* the store command that matches a keyword of the set algebra
StoreCommandOf(keyword) ==
    IF keyword = "intersect" THEN "interstore"
    ELSE IF keyword = "union" THEN "unionstore"
    ELSE "diffstore"

\* C26: for a query of keyword intersect, union or diff whose sub-queries
\* have compiled, _build queues the move2set script on all the child keys,
\* to the ranked-set type when the model has an ordering and to the
\* plain-set type otherwise, and right after it the matching interstore,
\* unionstore or diffstore command on the same keys, which stores into a
\* temporary key that no earlier command has named.
C26_NormaliseThenStore ==
    (bstatus \notin {"new", "idle"}
        /\ qtree.keyword \in {"intersect", "union", "diff"}) =>
        LET ch == BuildChildren(qtree.sub, 1, 1, qordered)
            p == IF qordered THEN "z" ELSE "s"
            i == Len(ch.cmds) + 1
        IN ch.status = "built" =>
            /\ Len(bpipe) >= i + 1
            /\ SubSeq(bpipe, 1, i - 1) = ch.cmds
            /\ bpipe[i].op = "move2set_" \o p
            /\ bpipe[i].keys = ch.keys
            /\ bpipe[i + 1].op = p \o StoreCommandOf(qtree.keyword)
            /\ bpipe[i + 1].keys = ch.keys
            /\ bpipe[i + 1].dest.tmp
            /\ bpipe[i + 1].dest \notin Range(ch.keys)
            /\ \A j \in 1..i : bpipe[j].dest # bpipe[i + 1].dest

C26_Witness ==
    /\ bstatus = "built" /\ qordered
    /\ qtree.keyword = "union" /\ Len(qtree.sub) = 2
    /\ qtree.sub[1].keyword = "set" /\ qtree.sub[1].lookups = 1
    /\ PlainPkQuery(qtree.sub[2])
    /\ \E i \in DOMAIN bpipe :
        /\ bpipe[i].op = "move2set_z"
        /\ bpipe[i].keys = <<TempKey(1), IdKey>>
        /\ bpipe[i + 1].op = "zunionstore"
        /\ bpipe[i + 1].dest = TempKey(2)

\* C27: for a query with a where clause whose sub-queries have compiled and
\* whose keyword is known, _build queues one filter script of the where
\* clause and returns a temporary key that has an expire command queued.
C27_WhereFiltersIntoTemp ==
    (bstatus \notin {"new", "idle"} /\ qtree.where
        /\ qtree.keyword \in {"set", "intersect", "union", "diff"}
        /\ BuildChildren(qtree.sub, 1, 1, qordered).status = "built") =>
        /\ bstatus \in {"built", "executed"}
        /\ bkey.tmp
        /\ ExpiresQueued(bkey)
        /\ \E i \in DOMAIN bpipe : bpipe[i].op = "where"

\* the store commands of the set algebra
AlgebraStores ==
    {p \o c : p \in {"s", "z"}, c \in {"interstore", "unionstore", "diffstore"}}

RECURSIVE AlgebraNodes(_)
\* the queries of a tree, the root included, whose keyword is a set algebra
AlgebraNodes(node) ==
    LET counts == [j \in DOMAIN node.sub |-> AlgebraNodes(node.sub[j])]
        RECURSIVE Total(_)
        Total(j) == IF j = 0 THEN 0 ELSE counts[j] + Total(j - 1)
    IN Total(Len(node.sub)) +
       (IF node.keyword \in {"intersect", "union", "diff"} THEN 1 ELSE 0)

\* C13: when the keyword of the query is none of set, intersect, union and
\* diff, _build raises ValueError, no store command of the set algebra is
\* queued for the query (the only ones queued are those of its sub-queries)
\* and the pipeline is not executed.
C13_UnknownKeywordIsFatal ==
    (bstatus \notin {"new", "idle"} /\ qtree.keyword \notin
        {"set", "intersect", "union", "diff"}) =>
        /\ bstatus = "ValueError"
        /\ Cardinality({i \in DOMAIN bpipe : bpipe[i].op \in AlgebraStores})
                <= AlgebraNodes(qtree)
        /\ bexec = 0

(***************************************************************************)
(* Claims on the delete cascade, checked under SpecDelete.                 *)
(***************************************************************************)
\* the models whose instances depend on model m through a chain of required
\* foreign keys held by other models
RECURSIVE RequiredReach(_, _)
RequiredReach(sch, S) ==
    LET T == S \cup {r.from : r \in {x \in sch : x.to \in S /\ x.required
                                                /\ x.from # x.to}}
    IN IF T = S THEN S ELSE RequiredReach(sch, T)

DeletesAt == {i \in DOMAIN dpipe : dpipe[i].op = "delete"}

\* C5: for every 'delete' command queued for a model, and every required
\* foreign key another model holds to it, the query of the dependents and
\* their 'delete' command are queued on the same pipeline strictly before
\* it; a call that returns has queued the 'delete' of its own model last.
C5_ChildrenBeforeParent ==
    /\ \A i \in DeletesAt :
        \A r \in schema :
            (r.to = dpipe[i].model /\ r.from # r.to /\ r.required) =>
                \E j, k \in 1..(i - 1) :
                    /\ j < k
                    /\ dpipe[j].op = "query" /\ dpipe[j].via = r
                    /\ dpipe[j].src = dpipe[i].key
                    /\ dpipe[j].model = r.from
                    /\ dpipe[k].op = "delete" /\ dpipe[k].model = r.from
                    /\ dpipe[k].key = dpipe[j].key
                    /\ dpipe[j].pipe = dpipe[i].pipe
                    /\ dpipe[k].pipe = dpipe[i].pipe
    /\ (dphase = "returned" /\ droot # 0) =>
        /\ dpipe # <<>>
        /\ dpipe[Len(dpipe)].op = "delete"
        /\ dpipe[Len(dpipe)].model = droot
        /\ dpipe[Len(dpipe)].key = QueryKey(0)

C5_Witness ==
    /\ dphase = "returned"
    /\ Cardinality(DeletesAt) >= 3
    /\ \E r, q \in schema :
        /\ r.to = droot /\ r.required /\ r.from # droot
        /\ q.to = r.from /\ q.required /\ q.from \notin {droot, r.from}

\* C6: no command is queued through a foreign key of another model that is
\* not required, and a model that depends on the deleted one through
\* optional foreign keys only is the target of no command.
C6_OptionalUntouched ==
    /\ \A i \in DOMAIN dpipe : dpipe[i].via = NoRel \/ dpipe[i].via.required
    /\ droot # 0 =>
        \A i \in DOMAIN dpipe :
            dpipe[i].model \in RequiredReach(schema, {droot})

C6_Witness ==
    /\ dphase = "returned"
    /\ \E r, q \in schema :
        /\ r.to = droot /\ ~r.required
        /\ r.from \notin RequiredReach(schema, {droot})
        /\ q.to = droot /\ q.required /\ q.from # droot
    /\ Cardinality(DeletesAt) >= 2

AggregatesAt == {i \in DOMAIN dpipe : dpipe[i].op = "aggregate"}

\* the self-referential relations of model m
SelfRels(sch, m) == {r \in sch : r.to = m /\ r.from = m}

\* C31: for every 'delete' command queued for a model M on a query key, and
\* every self-referential relation of M, exactly one 'aggregate' command is
\* queued on that key for that relation, and it is queued before the
\* 'delete'; an 'aggregate' is queued for self-referential relations only,
\* and no command is queued through a self-referential relation (the cascade
\* never recurses into it).
C31_SelfRelationAggregatedOnce ==
    /\ \A i \in DeletesAt :
        \A r \in SelfRels(schema, dpipe[i].model) :
            LET at == {j \in AggregatesAt :
                          /\ dpipe[j].model = dpipe[i].model
                          /\ dpipe[j].key = dpipe[i].key
                          /\ dpipe[j].arg = r}
            IN /\ Cardinality(at) = 1
               /\ \A j \in at : j < i /\ dpipe[j].pipe = dpipe[i].pipe
    /\ \A j \in AggregatesAt :
        dpipe[j].arg \in SelfRels(schema, dpipe[j].model)
    /\ \A i \in DOMAIN dpipe :
        dpipe[i].via = NoRel \/ dpipe[i].via.from # dpipe[i].via.to
    /\ (dphase = "returned" /\ droot # 0) =>
        Cardinality(AggregatesAt) =
            Cardinality({<<i, r>> \in DeletesAt \X schema :
                            r \in SelfRels(schema, dpipe[i].model)})

C31_Witness ==
    /\ dphase = "returned"
    /\ Cardinality(SelfRels(schema, droot)) = 2
    /\ Cardinality(AggregatesAt) = 2
    /\ Cardinality(DeletesAt) = 2

\* C33: a call of accumulate_delete on a model ends by returning, with the
\* 'delete' command of the starting model queued, for every schema, cycles
\* of required foreign keys between distinct models included.
C33_TerminatesWithDelete ==
    droot # 0 =>
        /\ dphase = "returned"
        /\ \E i \in DeletesAt :
            dpipe[i].model = droot /\ dpipe[i].key = QueryKey(0)

(***************************************************************************)
(* Claims on the session commit, checked under SpecSession.                *)
(***************************************************************************)
IsCommit(c) == c.op = "odmrun" /\ c.command = "commit"

CommitsAt == {i \in DOMAIN pipe : IsCommit(pipe[i])}

RECURSIVE DirtyCount(_)
DirtyCount(ss) ==
    IF ss = <<>> THEN 0 ELSE Len(Head(ss).dirty) + DirtyCount(Tail(ss))

\* is_valid() is false for a dirty instance of the model session
HasInvalid(sm) == \E j \in DOMAIN sm.dirty : ~sm.dirty[j].valid

\* C2 as stated: a session that was executed has queued exactly one commit
\* script call, holding all its dirty instances, and none when it has no
\* dirty instance.
C2_OneCommitPerRequest ==
    sstatus = "executed" =>
        IF DirtyCount(session) = 0 THEN CommitsAt = {}
        ELSE /\ Cardinality(CommitsAt) = 1
             /\ \A i \in CommitsAt : pipe[i].n = DirtyCount(session)

\* C2 amended: for every object model session the loop has gone through
\* there is exactly one commit script call when the model has dirty
\* instances, holding all of them in order, and none when it has none; no
\* other commit call is queued.
C2_OneCommitPerModel ==
    sstatus \in {"running", "executed"} =>
        /\ \A k \in 1..(si - 1) :
            LET mine == {i \in CommitsAt : pipe[i].model = session[k].model}
            IN IF session[k].type = "object" /\ Len(session[k].dirty) > 0
               THEN /\ Cardinality(mine) = 1
                    /\ \A i \in mine :
                        /\ pipe[i].n = Len(session[k].dirty)
                        /\ Len(pipe[i].records) = Len(session[k].dirty)
                        /\ pipe[i].iids =
                            [j \in 1..Len(session[k].dirty) |-> Iid(k, j)]
               ELSE mine = {}
        /\ \A i \in CommitsAt :
            \E k \in 1..(si - 1) :
                session[k].type = "object" /\ session[k].model = pipe[i].model

C2_Witness ==
    /\ sstatus = "executed"
    /\ \E k, l \in DOMAIN session :
        /\ Len(session[k].dirty) = 2
        /\ session[l].type = "object" /\ Len(session[l].dirty) = 0
    /\ Cardinality(CommitsAt) = 1
    /\ \A i \in CommitsAt : pipe[i].n = 2 /\ pipe[i] \in Range(sent)

DirtyOf(c) ==
    LET k == CHOOSE k \in DOMAIN session :
                session[k].type = "object" /\ session[k].model = c.model
    IN session[k].dirty

\* C28: the score sent for a dirty instance is derived from the counter of
\* the ordering when the ordering of the model is auto-assigned; it is the
\* sentinel MIN_FLOAT when the model has no ordering or the value of the
\* ordering field on the instance is None; otherwise it is the scorefun of
\* the ordering field applied to the value of the instance.
C28_ScoreSent ==
    \A i \in CommitsAt :
        \A j \in DOMAIN pipe[i].records :
            LET inst == DirtyOf(pipe[i])[j]
                score == pipe[i].records[j].score
                ordering == OrderingOf(pipe[i].model)
            IN IF ordering = "auto" THEN score.kind = "incrby"
               ELSE IF ordering = "none" \/ inst.oval = 0
               THEN score.kind = "MIN_FLOAT"
               ELSE score.kind = "scorefun" /\ score.v = inst.oval

C28_Witness ==
    /\ sstatus = "executed"
    /\ \E i \in DOMAIN sent :
        /\ IsCommit(sent[i]) /\ OrderingOf(sent[i].model) = "field"
        /\ sent[i].n = 2
        /\ sent[i].records[1].score.kind = "MIN_FLOAT"
        /\ sent[i].records[2].score = [kind |-> "scorefun", v |-> 3]

\* where the record of the j-th instance starts in the positional arguments:
\* after the count, every record takes four places and its payload
RecordAt(buf, j) ==
    LET RECURSIVE At(_)
        At(i) == IF i = 1 THEN 2 ELSE At(i - 1) + 4 + buf[At(i - 1) + 3]
    IN At(j)

\* C29: the positional arguments of a commit call are the count N of the
\* dirty instances followed by exactly N records, in the order of the dirty
\* instances, each made of the action, an id, the score, the payload length
\* and a payload of that many elements, an even number; the iids of the
\* call are the N state.iid in the same order.
C29_ArgumentBufferLayout ==
    \A i \in CommitsAt :
        LET buf == pipe[i].args
            dirty == DirtyOf(pipe[i])
            N == Len(dirty)
        IN /\ buf[1] = N
           /\ N > 0
           /\ RecordAt(buf, N + 1) = Len(buf) + 1
           /\ \A j \in 1..N :
                LET at == RecordAt(buf, j) IN
                /\ buf[at] = (IF dirty[j].persistent THEN "change" ELSE "add")
                /\ buf[at + 2] = Score(pipe[i].model, dirty[j])
                /\ buf[at + 3] % 2 = 0
                /\ SubSeq(buf, at + 4, at + 3 + buf[at + 3])
                        = CleanedData(dirty[j])
           /\ Len(pipe[i].iids) = N
           /\ \A j \in 1..N : \E k \in DOMAIN session :
                session[k].dirty = dirty /\ pipe[i].iids[j] = Iid(k, j)

C29_Witness ==
    /\ sstatus = "executed"
    /\ \E i \in DOMAIN sent :
        /\ IsCommit(sent[i])
        /\ Len(sent[i].args) = 11
        /\ sent[i].args[1] = 2
        /\ sent[i].args[2] = "add" /\ sent[i].args[5] = 0
        /\ sent[i].args[6] = "change" /\ sent[i].args[9] = 2
        /\ Len(sent[i].iids) = 2

\* C30: the id in the second place of every commit record is the state.iid
\* of its instance, whether the instance is persistent or not.
C30_RecordIdIsIid ==
    \A i \in CommitsAt :
        \A j \in DOMAIN pipe[i].iids :
            pipe[i].args[RecordAt(pipe[i].args, j) + 1] = pipe[i].iids[j]

\* C22: every command execute_session queues is queued on its one pipeline;
\* the pipeline is submitted exactly once, when the loop over the model
\* sessions has ended, and carries every command queued; until then no
\* command has reached the store.
C22_OnePipelineOneSubmission ==
    /\ \A i \in DOMAIN pipe : pipe[i].pipe = ThePipe
    /\ sstatus = "executed" =>
        /\ nexec = 1
        /\ si > Len(session)
        /\ sent = pipe
    /\ sstatus # "executed" => (nexec = 0 /\ sent = <<>>)

C22_Witness ==
    /\ sstatus = "executed"
    /\ \E k, l \in DOMAIN session :
        /\ session[k].type = "structure"
        /\ session[l].type = "object" /\ session[l].todelete
        /\ Len(session[l].dirty) > 0
    /\ \E i, j, l \in DOMAIN sent :
        /\ sent[i].op = "check_structures"
        /\ sent[j].op = "delete"
        /\ IsCommit(sent[l])

\* a command of the delete cascade: the query of the instances to delete,
\* its expiry, an aggregate or a delete of the object model
IsCascade(c) == c.op \in {"query", "expire", "aggregate", "delete"}
                    /\ "via" \in DOMAIN c

\* the commands a step of the loop of execute_session has queued
Queued == SubSeq(pipe', Len(pipe) + 1, Len(pipe'))

\* C36: the pipeline only grows at its end, by the commands of the model
\* session the loop is at, and the loop goes through the model sessions in
\* iteration order, so the commands of different model sessions are not
\* interleaved; what an object model session queues is its delete cascade
\* followed by at most one commit command, of its own model, which is last.
C36_CascadeThenCommitInOrder ==
    [][/\ Len(pipe') >= Len(pipe)
       /\ SubSeq(pipe', 1, Len(pipe)) = pipe
       /\ pipe' # pipe =>
            /\ sstatus = "running" /\ si \in DOMAIN session /\ si' = si + 1
            /\ session' = session \/ session[si].type = "structure"
            /\ session[si].type = "object" =>
                \A i \in DOMAIN Queued :
                    IF IsCommit(Queued[i])
                    THEN /\ i = Len(Queued)
                         /\ Queued[i].model = session[si].model
                         /\ Queued[i].iids[1] = Iid(si, 1)
                    ELSE /\ IsCascade(Queued[i])
                         /\ session[si].todelete
            /\ session[si].type = "structure" =>
                \A i \in DOMAIN Queued :
                    ~IsCommit(Queued[i]) /\ ~IsCascade(Queued[i])]_vars

C36_Witness ==
    /\ sstatus = "executed" /\ Len(session) = 2
    /\ session[1].type = "object" /\ session[1].todelete
    /\ session[2].type = "object"
    /\ \E i, j, l \in DOMAIN pipe :
        /\ i < j /\ j < l
        /\ IsCascade(pipe[i]) /\ pipe[i].op = "delete"
        /\ pipe[i].model = session[1].model
        /\ IsCommit(pipe[j]) /\ pipe[j].model = session[1].model
        /\ IsCommit(pipe[l]) /\ pipe[l].model = session[2].model

(***************************************************************************)
(* Claims on the commit response, checked under SpecCommit.                *)
(***************************************************************************)
\* the score and the message the bytes of an info spell
ScoreSpelled(info) == IF info = <<49>> THEN 1 ELSE 12
MessageSpelled(info) ==
    IF info = <<101>> THEN <<"e">>
    ELSE IF info = <<49>> THEN <<"d">> ELSE <<"d", "d">>

\* a response of one (id, flag, info) triple per instance, the info of an
\* accepted instance being its score
PerInstance ==
    /\ Len(cresp) = Len(ciids)
    /\ \A i \in DOMAIN cresp : cresp[i].flag # 0 => cresp[i].info # <<101>>

\* C3: for a per-instance response the callback yields one outcome per
\* instance in submission order: a result with the instance's iid, the store
\* id and the score for an accepted instance, a CommitException with the
\* store's message for a rejected one, whatever the outcomes of the others.
C3_OneOutcomePerInstance ==
    (cphase # "call" /\ PerInstance) =>
        /\ cphase = "done"
        /\ Len(cout) = Len(ciids)
        /\ \A i \in DOMAIN cout :
            IF cresp[i].flag # 0
            THEN /\ cout[i].type = "instance_session_result"
                 /\ cout[i].iid = ciids[i]
                 /\ cout[i].id = cresp[i].id
                 /\ cout[i].persistent /\ ~cout[i].deleted
                 /\ cout[i].score = ScoreSpelled(cresp[i].info)
            ELSE /\ cout[i].type = "CommitException"
                 /\ cout[i].msg = MessageSpelled(cresp[i].info)

\* three instances, the second rejected
C3_Witness ==
    /\ cphase = "done" /\ PerInstance /\ Len(ciids) = 3
    /\ cresp[1].flag = 1 /\ cresp[2].flag = 0 /\ cresp[3].flag = 1
    /\ Len(cout) = 3
    /\ cout[1].type = "instance_session_result"
    /\ cout[2].type = "CommitException"
    /\ cout[3].type = "instance_session_result" /\ cout[3].iid = ciids[3]
    /\ Cardinality({i \in DOMAIN cout : cout[i].type = "CommitException"}) = 1

(***************************************************************************)
(* Claims on the structure flush, checked under SpecFlush.                 *)
(***************************************************************************)
\* the state right after a call that ran the flush of the structure's class
JustFlushed == fl.fresh /\ fl.flushed

\* C7: for every structure kind, a flush on a cache that holds no pending
\* operation issues no store command and returns the falsy result None.
C7_EmptyFlushIsNoop ==
    (JustFlushed /\ fl.preEmpty) =>
        (fl.cmds = <<>> /\ fl.result = "None" /\ ~fl.raised)

C7_Witness ==
    /\ JustFlushed /\ fl.preEmpty /\ fl.cmds = <<>>
    /\ fl.prevIssued

\* C8 as stated: one flush issues at most one additive and at most one
\* removal store command.
C8_OneAdditiveOneRemoval ==
    JustFlushed =>
        (CountOf(fl.cmds, IsAdditive) <= 1 /\ CountOf(fl.cmds, IsRemoval) <= 1)

\* C8 amended: one flush issues at most one store command per pending
\* container, so at most two commands and none of them twice; one additive
\* and one removal at most for every kind but List, whose two commands
\* (lpush of front, rpush of back) are both additive.
C8_OneCommandPerContainer ==
    JustFlushed =>
        /\ Len(fl.cmds) <= 2
        /\ \A i, j \in DOMAIN fl.cmds : fl.cmds[i].op = fl.cmds[j].op => i = j
        /\ CountOf(fl.cmds, IsRemoval) <= 1
        /\ skind # "List" => CountOf(fl.cmds, IsAdditive) <= 1
        /\ skind = "List" => CountOf(fl.cmds, IsRemoval) = 0

C8_Witness ==
    /\ JustFlushed /\ skind = "List"
    /\ Len(fl.cmds) = 2 /\ CountOf(fl.cmds, IsAdditive) = 2

\* C9: flush never clears or mutates the cache of the structure: the pending
\* containers are the same before and after the flush step.
C9_FlushKeepsCache ==
    JustFlushed => fl.kept

C9_Witness ==
    /\ JustFlushed /\ fl.op = "flush" /\ fl.kept
    /\ fl.cmds # <<>> /\ ~CacheEmpty(cache)

\* C10 as stated: a second flush of the same structure, with no write to its
\* cache since the first, issues no command and reports unchanged.
C10_SecondFlushIsNoop ==
    (JustFlushed /\ fl.prevFlushed /\ ~fl.written) =>
        (fl.cmds = <<>> /\ fl.result = "None")

\* C10 amended: after a flush that succeeded and whose caller then cleared
\* the cache (commit), a second flush with no write in between issues no
\* command and reports unchanged.
C10_FlushAfterCommitIsNoop ==
    (JustFlushed /\ fl.prevFlushed /\ fl.prevOp = "commit" /\ ~fl.prevRaised
        /\ ~fl.written) =>
        (fl.cmds = <<>> /\ fl.result = "None")

C10_Witness ==
    /\ JustFlushed /\ fl.prevFlushed /\ fl.prevOp = "commit" /\ ~fl.prevRaised
    /\ ~fl.written /\ fl.prevIssued /\ fl.cmds = <<>>

\* a direct flush has just run; it leaves the cache as it found it (C9), so
\* the cache now is the cache the flush read
DirectFlush == JustFlushed /\ fl.op = "flush"

\* the commands of a flush, given as <<command, container, pending>> in the
\* order of issue: those whose container holds something
Issued(triples) ==
    LET full == SelectSeq(triples, LAMBDA p : p[3])
    IN [i \in DOMAIN full |-> [op |-> full[i][1], args |-> full[i][2]]]

\* C32: a flush translates the buffered content into store commands by
\* structure kind: String appends the buffered bytes; Set sadd of toadd and
\* srem of toremove; Zset zadd of the (score, member) pairs and zrem of the
\* members only; Hash hmset of toadd and hdel of toremove; List lpush of
\* front and rpush of back; NumberArray the push-back script with the back
\* buffer and never a removal command.
C32_FlushTranslation ==
    DirectFlush =>
        /\ skind = "String" => fl.cmds = Issued(<<<<"append", cache.data, cache.data # <<>> >>>>)
        /\ skind = "Set" =>
            fl.cmds = Issued(<<<<"sadd", cache.toadd, cache.toadd # {}>>,
                               <<"srem", cache.toremove, cache.toremove # {}>>>>)
        /\ skind = "Zset" =>
            /\ Len(fl.cmds) =
                   (IF cache.toadd # {} THEN 1 ELSE 0)
                   + (IF cache.toremove # {} THEN 1 ELSE 0)
            /\ cache.toadd # {} =>
                /\ fl.cmds[1].op = "zadd"
                /\ Len(fl.cmds[1].args) = 2 * Cardinality(cache.toadd)
                /\ {<<fl.cmds[1].args[2 * i - 1], fl.cmds[1].args[2 * i]>> :
                        i \in 1..Cardinality(cache.toadd)} = cache.toadd
            /\ cache.toremove # {} =>
                /\ fl.cmds[Len(fl.cmds)].op = "zrem"
                /\ fl.cmds[Len(fl.cmds)].args
                       = {el[2] : el \in cache.toremove}
        /\ skind = "Hash" =>
            fl.cmds = Issued(<<<<"hmset", cache.toadd, cache.toadd # {}>>,
                               <<"hdel", cache.toremove, cache.toremove # {}>>>>)
        /\ skind = "List" =>
            fl.cmds = Issued(<<<<"lpush", cache.front, cache.front # <<>> >>,
                               <<"rpush", cache.back, cache.back # <<>> >>>>)
        /\ skind = "NumberArray" =>
            /\ fl.cmds = Issued(<<<<"numberarray_pushback", cache.back,
                                 cache.back # <<>> >>>>)
            /\ CountOf(fl.cmds, IsRemoval) = 0

C32_Witness ==
    /\ DirectFlush /\ skind = "Zset"
    /\ Len(fl.cmds) = 2
    /\ cache.toadd # {} /\ cache.toremove # {}

\* C34: a timeseries flush that raises NotImplementedError, because removals
\* are pending, has issued no store command.
C34_FailedTsFlushIssuesNothing ==
    (DirectFlush /\ skind = "TS" /\ fl.raised) => fl.cmds = <<>>

=============================================================================
